---------------------------- MODULE Spec2Model ----------------------------
(***************************************************************************)
(* A model of go-nat-listener (package nattraversal):                      *)
(*   - the Renewal Manager (renewalmanager.go): Start, Stop, the           *)
(*     background renewLoop and the renew step;                            *)
(*   - the listener wrappers (NATListener, NATPacketListener) and the      *)
(*     cached NATPacketConn, with their locks;                             *)
(*   - the port-mapping capability, modelled on MockPortMapper (mocks.go); *)
(*   - the acquisition phase: NewPortMapperContext, NewUPnPMapperContext,  *)
(*     ListenContext and ListenPacketContext.                              *)
(*                                                                         *)
(* Three specifications share the variables:                               *)
(*   Spec        a constructed listener used through its public API while  *)
(*               the renewal loop runs in the background;                  *)
(*   SpecRM      a Renewal Manager driven directly by Start and Stop;      *)
(*   SpecListen  one call of a constructor or of the selector, step by     *)
(*               step, with the context cancelled at any moment.           *)
(***************************************************************************)
EXTENDS Integers, Sequences, FiniteSets, TLC

\* ------------------------------------------------------------------ bounds

\* Start calls that open a new cycle (SpecRM); Spec has the one cycle opened
\* by the constructor.
MaxStarts == 2

\* Ticks the tickers deliver in one behaviour.
MaxTicks == 2

\* ------------------------------------------------------- program constants

\* The port the tests listen on and map (NewRenewalManager(mock, "TCP", 8080, 8080)).
InternalPort == 8080

\* The port a NAT device hands out when it reassigns (ports: []int{8080, 9090}).
ChangedPort == 9090

\* External ports the capability can answer MapPort with.
ExtPorts == {InternalPort, ChangedPort}

\* mock.SetExternalIP("203.0.113.100")
ExternalIP == "203.0.113.100"

\* Threads of the caller that use the listener or the manager.
Callers == {"c1", "c2"}

Cycles == 1..MaxStarts

Free == "free"

VARIABLES
    \* --- RenewalManager (renewalmanager.go:15-25)
    protocol,       \* r.protocol: "TCP" | "UDP"
    started,        \* r.started
    rExternalPort,  \* r.externalPort
    onPortChange,   \* r.onPortChange # nil
    rmu,            \* holder of r.mu, or Free
    cycle,          \* number of Start calls that opened a cycle; r.done and
                    \* r.ticker are those of cycle `cycle`
    doneClosed,     \* cycles whose done channel is closed
    tickerStopped,  \* cycles whose ticker is stopped
    tickC,          \* cycle -> number of ticks buffered in ticker.C (0 or 1)
    loop,           \* cycle -> the renewLoop goroutine launched in that cycle
    ticks,          \* ticks delivered so far
    \* --- the capability (mocks.go:12-23)
    mappings,       \* keys <<protocol, externalPort>> of m.mappings
    unmaps,         \* UnmapPort calls made, in order
    capFailed,      \* some capability call has failed
    \* --- the listener (part_018:11-21, part_011:11-18) and its wrapper
    kind,           \* "stream" (NATListener) | "packet" (NATPacketListener)
    renewal,        \* l.renewal: "manager", or "nil" (a fallback listener)
    fallback,       \* l.fallback
    closed,         \* l.closed
    lExternalPort,  \* l.externalPort
    addr,           \* l.addr, a NATAddr value
    addrs,          \* the NATAddr objects allocated for the listener, in order of
                    \* allocation; l.addr points at the last one
    lmu,            \* holder of l.mu, or Free
    cached,         \* l.cachedPacketConn # nil
    localAddr,      \* l.cachedPacketConn.localAddr
    onceDone,       \* l.cachedPacketConn.closeOnce has run
    closeErr,       \* l.cachedPacketConn.closeErr
    sockClosed,     \* the underlying socket is closed
    sockCloses,     \* Close invocations on the underlying socket
    \* --- callers
    caller,         \* caller -> [pc, op, ret, late]
    hist,           \* observations of the behaviour so far (history variable)
    \* --- acquisition phase (SpecListen)
    acq,
    \* --- time and leases (mocks.go:132-146)
    now,            \* time.Now(), in minutes since the first mapping was leased
    expiresAt,      \* external port -> ExpiresAt of the mapping recorded for it
    \* --- a call of a function without receiver state
    call            \* [fn, ...]: the function, its arguments and its result

vars == << protocol, started, rExternalPort, onPortChange, rmu, cycle,
           doneClosed, tickerStopped, tickC, loop, ticks,
           mappings, unmaps, capFailed,
           kind, renewal, fallback, closed, lExternalPort, addr, addrs, lmu, cached, localAddr,
           onceDone, closeErr, sockClosed, sockCloses,
           caller, hist, acq, now, expiresAt, call >>

rmVars   == << protocol, started, rExternalPort, onPortChange, rmu, cycle,
               doneClosed, tickerStopped, tickC, loop, ticks >>
capVars  == << mappings, unmaps, capFailed >>
lstVars  == << kind, renewal, fallback, closed, lExternalPort, addr, addrs, lmu, cached, localAddr,
               onceDone, closeErr, sockClosed, sockCloses >>


\* ------------------------------------------------------------ NATAddr value

\* NewNATAddr(network, internalAddr, externalAddr). An endpoint "host:port" is
\* the pair <<host, port>>.
NewNATAddr(network, internalAddr, externalAddr) ==
    [network |-> network, internalAddr |-> internalAddr, externalAddr |-> externalAddr]

\* fmt.Sprintf("%s:%d", l.externalIP, newPort)
Endpoint(ip, port) == << ip, port >>

\* The network of a listener kind and the protocol its manager maps.
NetworkOf(k) == IF k = "stream" THEN "tcp" ELSE "udp"
ProtocolOf(k) == IF k = "stream" THEN "TCP" ELSE "UDP"

\* ---------------------------------------------------------- the capability

\* key := fmt.Sprintf("%s:%d", protocol, externalPort)
MappingKey(proto, port) == << proto, port >>

\* MockPortMapper.MapPort on success: m.mappings[key] = &PortMapping{...}
MockMapPort(proto, extPort) == mappings \cup { MappingKey(proto, extPort) }

\* renewalInterval and mappingDuration, in minutes.
renewalInterval == 45
mappingDuration == 90

\* MockPortMapper.MapPort on success: ExpiresAt: time.Now().Add(duration)
MockExpiresAt(extPort) == [expiresAt EXCEPT ![extPort] = now + mappingDuration]

\* No mapping has been leased.
NoLease == [p \in ExtPorts |-> 0]

\* No function call is under way.
NoCall == [fn |-> "none"]

\* MockPortMapper.UnmapPort on success: delete(m.mappings, key)
MockUnmapPortAnyProtocol(proto, extPort) == { m \in mappings : m[2] # extPort }

MockUnmapPort(proto, extPort) == mappings \ { MappingKey(proto, extPort) }

\* ----------------------------------------------------------- initial state

NoLoop == [pc |-> "none", newPort |-> 0, oldPort |-> 0]

IdleCaller == [pc |-> "idle", op |-> "none", ret |-> "none", val |-> 0, late |-> FALSE]

NoRenew == [ok |-> FALSE, old |-> 0, new |-> 0, cbs |-> << >>, rAtCb |-> 0, rAfter |-> 0]

InitHist ==
    [ stopReturned  |-> FALSE,   \* a Stop that made the transition has returned
      recorded      |-> InternalPort, \* the port most recently recorded
      closeReturned |-> FALSE,   \* a Close (listener or wrapper) has returned
      lCloseReturned |-> FALSE,  \* a listener Close has returned
      wCloseCalled  |-> FALSE,   \* Close was called on the wrapper by a caller
      lSockCloses   |-> 0,       \* socket Close invocations made by listener Close calls
      wrappers      |-> 0,       \* NATPacketConn wrappers created so far
      renewFailures |-> 0,       \* renew steps whose MapPort failed
      lastRenew     |-> NoRenew  \* the renew step completed last
    ]

NoAcq == [pc |-> "off"]

\* The listener as ListenContext / ListenPacketContext leave it
\* (listener.go:57-68, packetlistener.go:57-68) and the mapping created for it.
InitListener(k) ==
    /\ kind = k
    /\ renewal = "manager"
    /\ fallback = FALSE
    /\ closed = FALSE
    /\ lExternalPort = InternalPort
    /\ addr = NewNATAddr(NetworkOf(k), Endpoint("0.0.0.0", InternalPort),
                         Endpoint(ExternalIP, InternalPort))
    /\ addrs = << addr >>
    /\ lmu = Free
    /\ cached = FALSE
    /\ localAddr = addr
    /\ onceDone = FALSE
    /\ closeErr = "nil"
    /\ sockClosed = FALSE
    /\ sockCloses = 0

\* NewRenewalManager(mapper, protocol, port, externalPort): not started.
InitManager(k) ==
    /\ protocol = ProtocolOf(k)
    /\ started = FALSE
    /\ rExternalPort = InternalPort
    /\ rmu = Free
    /\ cycle = 0
    /\ doneClosed = {}
    /\ tickerStopped = {}
    /\ tickC = [c \in Cycles |-> 0]
    /\ loop = [c \in Cycles |-> NoLoop]
    /\ ticks = 0

InitCapability(k) ==
    /\ mappings = { MappingKey(ProtocolOf(k), InternalPort) }
    /\ now = 0
    /\ expiresAt = [NoLease EXCEPT ![InternalPort] = mappingDuration]
    /\ call = NoCall
    /\ unmaps = << >>
    /\ capFailed = FALSE

\* ------------------------------------------------- sockets and sync.Once

\* net.PacketConn.Close / net.Listener.Close: nil the first time, an error
\* ("use of closed network connection") on a closed socket.
SockCloseResult == IF sockClosed THEN "errClosed" ELSE "nil"

SockClose ==
    /\ sockClosed' = TRUE
    /\ sockCloses' = sockCloses + 1

\* NATPacketConn.Close: c.closeOnce.Do(func() { c.closeErr = c.PacketConn.Close() });
\* return c.closeErr. The value returned is closeErr'.
NATPacketConnClose ==
    IF onceDone
    THEN UNCHANGED << onceDone, closeErr, sockClosed, sockCloses >>
    ELSE /\ onceDone' = TRUE
         /\ closeErr' = SockCloseResult
         /\ SockClose


\* ------------------------------------------------------- Renewal Manager

Idle(c) == caller[c].pc = "idle"

\* A caller's record when a call returns / when it moves inside a call.
Returned(c, op, ret, late) ==
    caller' = [caller EXCEPT ![c] = [pc |-> "idle", op |-> op, ret |-> ret, val |-> 0,
                                     late |-> late]]

\* A query returns a value.
Answered(c, op, val) ==
    caller' = [caller EXCEPT ![c] = [pc |-> "idle", op |-> op, ret |-> "value", val |-> val,
                                     late |-> FALSE]]

Goto(c, pc) == caller' = [caller EXCEPT ![c].pc = pc]

\* RenewalManager.Start, a whole call (r.mu is held from entry to return and no
\* call leaves the manager): a no-op when already started; otherwise it marks
\* the manager started, makes a fresh done channel and ticker (a new cycle)
\* and launches renewLoop on them.
StartBodyNoGuard(c) ==
    /\ rmu = Free
    /\ cycle < MaxStarts
    /\ started' = TRUE
    /\ cycle' = cycle + 1
    /\ loop' = [loop EXCEPT ![cycle + 1] = [NoLoop EXCEPT !.pc = "select"]]
    /\ Returned(c, "Start", "started", FALSE)
    /\ UNCHANGED << protocol, rExternalPort, onPortChange, rmu, doneClosed,
                    tickerStopped, tickC, ticks >>

StartBodyTerminal(c) ==
    /\ rmu = Free
    /\ IF started \/ cycle >= 1
       THEN /\ UNCHANGED << started, cycle, loop >>
            /\ Returned(c, "Start", "noop", FALSE)
       ELSE /\ cycle < MaxStarts
            /\ started' = TRUE
            /\ cycle' = cycle + 1
            /\ loop' = [loop EXCEPT ![cycle + 1] = [NoLoop EXCEPT !.pc = "select"]]
            /\ Returned(c, "Start", "started", FALSE)
    /\ UNCHANGED << protocol, rExternalPort, onPortChange, rmu, doneClosed,
                    tickerStopped, tickC, ticks >>

StartBody(c) ==
    /\ rmu = Free
    /\ IF started
       THEN /\ UNCHANGED << started, cycle, loop >>
            /\ Returned(c, "Start", "noop", FALSE)
       ELSE /\ cycle < MaxStarts
            /\ started' = TRUE
            /\ cycle' = cycle + 1
            /\ loop' = [loop EXCEPT ![cycle + 1] = [NoLoop EXCEPT !.pc = "select"]]
            /\ Returned(c, "Start", "started", FALSE)
    /\ UNCHANGED << protocol, rExternalPort, onPortChange, rmu, doneClosed,
                    tickerStopped, tickC, ticks >>

\* RenewalManager.Stop up to the UnmapPort call: takes r.mu; returns at once
\* when not started; otherwise started = false, close(r.done), r.ticker.Stop(),
\* and goes on to the unmap holding r.mu. `op` is the call the caller is in:
\* "Stop", or "Close" when a listener's Close calls Stop.
StopEnterNoGuard(c, op) ==
    /\ rmu = Free
    /\ started' = FALSE
    /\ doneClosed' = doneClosed \cup {cycle}
    /\ tickerStopped' = tickerStopped \cup {cycle}
    /\ rmu' = c
    /\ caller' = [caller EXCEPT ![c].pc = "unmap", ![c].op = op, ![c].ret = "none"]
    /\ UNCHANGED hist

\* Stop without close(r.done).
StopEnterNoSignal(c, op) ==
    /\ rmu = Free
    /\ IF ~started
       THEN /\ UNCHANGED << started, doneClosed, tickerStopped, rmu, hist >>
            /\ IF op = "Stop"
               THEN Returned(c, "Stop", "noop", FALSE)
               ELSE Goto(c, "sock")
       ELSE /\ started' = FALSE
            /\ UNCHANGED doneClosed
            /\ tickerStopped' = tickerStopped \cup {cycle}
            /\ rmu' = c
            /\ caller' = [caller EXCEPT ![c].pc = "unmap", ![c].op = op, ![c].ret = "none"]
            /\ UNCHANGED hist

StopEnter(c, op) ==
    /\ rmu = Free
    /\ IF ~started
       THEN /\ UNCHANGED << started, doneClosed, tickerStopped, rmu, hist >>
            /\ IF op = "Stop"
               THEN Returned(c, "Stop", "noop", FALSE)
               ELSE Goto(c, "sock")
       ELSE /\ started' = FALSE
            /\ doneClosed' = doneClosed \cup {cycle}
            /\ tickerStopped' = tickerStopped \cup {cycle}
            /\ rmu' = c
            /\ caller' = [caller EXCEPT ![c].pc = "unmap", ![c].op = op, ![c].ret = "none"]
            /\ UNCHANGED hist

\* The port Stop hands to UnmapPort: r.externalPort, read under r.mu.
StopUnmapPort == rExternalPort

\* The rest of Stop: err := r.mapper.UnmapPort(r.protocol, r.externalPort); a
\* failure is logged; r.mu is released on return.
StopUnmapRetries(c) ==
    /\ caller[c].pc = "unmap"
    /\ rmu = c
    /\ \E ok \in BOOLEAN :
         /\ unmaps' = Append(unmaps, [protocol |-> protocol, port |-> StopUnmapPort,
                                      recorded |-> hist.recorded])
         /\ mappings' = IF ok THEN MockUnmapPort(protocol, StopUnmapPort) ELSE mappings
         /\ capFailed' = (capFailed \/ ~ok)
         /\ IF ok \/ Len(unmaps) >= 1
            THEN /\ rmu' = Free
                 /\ hist' = [hist EXCEPT !.stopReturned = TRUE]
                 /\ IF caller[c].op = "Close"
                    THEN Goto(c, "sock")
                    ELSE Returned(c, "Stop", "stopped", FALSE)
            ELSE UNCHANGED << rmu, hist, caller >>
    /\ UNCHANGED << protocol, started, rExternalPort, onPortChange, cycle,
                    doneClosed, tickerStopped, tickC, loop, ticks >>
    /\ UNCHANGED << lstVars, acq >>
    /\ UNCHANGED << now, expiresAt, call >>

StopUnmap(c) ==
    /\ caller[c].pc = "unmap"
    /\ rmu = c
    /\ \E ok \in BOOLEAN :
         /\ unmaps' = Append(unmaps, [protocol |-> protocol, port |-> StopUnmapPort,
                                      recorded |-> hist.recorded])
         /\ mappings' = IF ok THEN MockUnmapPort(protocol, StopUnmapPort) ELSE mappings
         /\ capFailed' = (capFailed \/ ~ok)
    /\ rmu' = Free
    /\ hist' = [hist EXCEPT !.stopReturned = TRUE]
    /\ IF caller[c].op = "Close"
       THEN Goto(c, "sock")
       ELSE Returned(c, "Stop", "stopped", FALSE)
    /\ UNCHANGED << protocol, started, rExternalPort, onPortChange, cycle,
                    doneClosed, tickerStopped, tickC, loop, ticks >>
    /\ UNCHANGED << lstVars, acq >>
    /\ UNCHANGED << now, expiresAt, call >>

\* The runtime delivers a tick of cycle k's ticker: ticker.C holds one tick
\* and a tick that finds it full is dropped; a stopped ticker sends none.
Tick(k) ==
    /\ k <= cycle
    /\ k \notin tickerStopped
    /\ tickC[k] = 0
    /\ ticks < MaxTicks
    /\ tickC' = [tickC EXCEPT ![k] = 1]
    /\ ticks' = ticks + 1
    /\ UNCHANGED << protocol, started, rExternalPort, onPortChange, rmu, cycle,
                    doneClosed, tickerStopped, loop >>
    /\ UNCHANGED << capVars, lstVars, caller, hist, acq >>
    /\ UNCHANGED << now, expiresAt, call >>

\* renewLoop reading r.ticker.C, the field, instead of the channel it was
\* started with.
LoopTickSharedTicker(k) ==
    /\ loop[k].pc = "select"
    /\ cycle >= 1
    /\ tickC[cycle] = 1
    /\ tickC' = [tickC EXCEPT ![cycle] = 0]
    /\ loop' = [loop EXCEPT ![k].pc = "map"]
    /\ UNCHANGED << protocol, started, rExternalPort, onPortChange, rmu, cycle,
                    doneClosed, tickerStopped, ticks >>
    /\ UNCHANGED << capVars, lstVars, caller, hist, acq >>
    /\ UNCHANGED << now, expiresAt, call >>

\* renewLoop: select { case <-tickerC: r.renew() ... }. Go chooses among the
\* ready cases at random, so a buffered tick can win over a closed done.
LoopTick(k) ==
    /\ loop[k].pc = "select"
    /\ tickC[k] = 1
    /\ tickC' = [tickC EXCEPT ![k] = 0]
    /\ loop' = [loop EXCEPT ![k].pc = "map"]
    /\ UNCHANGED << protocol, started, rExternalPort, onPortChange, rmu, cycle,
                    doneClosed, tickerStopped, ticks >>
    /\ UNCHANGED << capVars, lstVars, caller, hist, acq >>
    /\ UNCHANGED << now, expiresAt, call >>

\* renewLoop: select { ... case <-done: return }
LoopDone(k) ==
    /\ loop[k].pc = "select"
    /\ k \in doneClosed
    /\ loop' = [loop EXCEPT ![k].pc = "exited"]
    /\ UNCHANGED << protocol, started, rExternalPort, onPortChange, rmu, cycle,
                    doneClosed, tickerStopped, tickC, ticks >>
    /\ UNCHANGED << capVars, lstVars, caller, hist, acq >>
    /\ UNCHANGED << now, expiresAt, call >>

\* The renew step completed: what it did, for the history.
RenewDone(ok, old, new, cbs, rAtCb, rAfter) ==
    [hist EXCEPT !.lastRenew = [ok |-> ok, old |-> old, new |-> new, cbs |-> cbs,
                                rAtCb |-> rAtCb, rAfter |-> rAfter]]

\* renew, first part: newPort, err := r.mapper.MapPort(r.protocol,
\* r.internalPort, mappingDuration), called without r.mu. On an error the step
\* logs and returns. The capability chooses the external port.
RenewMapPortFailExits(k) ==
    /\ loop[k].pc = "map"
    /\ \E ok \in BOOLEAN, p \in ExtPorts :
         IF ok
         THEN /\ mappings' = MockMapPort(protocol, p)
              /\ expiresAt' = MockExpiresAt(p)
              /\ loop' = [loop EXCEPT ![k] = [NoLoop EXCEPT !.pc = "commit", !.newPort = p]]
              /\ UNCHANGED << capFailed, hist >>
         ELSE /\ p = InternalPort
              /\ capFailed' = TRUE
              /\ loop' = [loop EXCEPT ![k] = [NoLoop EXCEPT !.pc = "exited"]]
              /\ hist' = [RenewDone(FALSE, rExternalPort, 0, << >>, 0, rExternalPort)
                            EXCEPT !.renewFailures = @ + 1]
              /\ UNCHANGED << mappings, expiresAt >>
    /\ UNCHANGED << protocol, started, rExternalPort, onPortChange, rmu, cycle,
                    doneClosed, tickerStopped, tickC, ticks >>
    /\ UNCHANGED << unmaps, lstVars, caller, acq >>
    /\ UNCHANGED << now, call >>

RenewMapPort(k) ==
    /\ loop[k].pc = "map"
    /\ \E ok \in BOOLEAN, p \in ExtPorts :
         IF ok
         THEN /\ mappings' = MockMapPort(protocol, p)
              /\ expiresAt' = MockExpiresAt(p)
              /\ loop' = [loop EXCEPT ![k] = [NoLoop EXCEPT !.pc = "commit", !.newPort = p]]
              /\ UNCHANGED << capFailed, hist >>
         ELSE /\ p = InternalPort
              /\ capFailed' = TRUE
              /\ loop' = [loop EXCEPT ![k] = [NoLoop EXCEPT !.pc = "select"]]
              /\ hist' = [RenewDone(FALSE, rExternalPort, 0, << >>, 0, rExternalPort)
                            EXCEPT !.renewFailures = @ + 1]
              /\ UNCHANGED << mappings, expiresAt >>
    /\ UNCHANGED << protocol, started, rExternalPort, onPortChange, rmu, cycle,
                    doneClosed, tickerStopped, tickC, ticks >>
    /\ UNCHANGED << unmaps, lstVars, caller, acq >>
    /\ UNCHANGED << now, call >>

\* renew, second part, under r.mu: oldPort := r.externalPort; callback :=
\* r.onPortChange; if newPort != oldPort { r.externalPort = newPort }. The lock
\* is released before the callback runs.
RenewCommitAlwaysCallback(k) ==
    /\ loop[k].pc = "commit"
    /\ rmu = Free
    /\ rExternalPort' = loop[k].newPort
    /\ loop' = [loop EXCEPT ![k].pc = "cb", ![k].oldPort = rExternalPort]
    /\ hist' = [hist EXCEPT !.recorded = loop[k].newPort]
    /\ UNCHANGED << protocol, started, onPortChange, rmu, cycle,
                    doneClosed, tickerStopped, tickC, ticks >>
    /\ UNCHANGED << capVars, lstVars, caller, acq >>
    /\ UNCHANGED << now, expiresAt, call >>

RenewCommitKeepsLock(k) ==
    /\ loop[k].pc = "commit"
    /\ rmu = Free
    /\ LET newPort == loop[k].newPort
           oldPort == rExternalPort
       IN  IF newPort # oldPort
           THEN /\ rExternalPort' = newPort
                /\ IF onPortChange
                   THEN /\ loop' = [loop EXCEPT ![k].pc = "cb", ![k].oldPort = oldPort]
                        /\ hist' = [hist EXCEPT !.recorded = newPort]
                        /\ rmu' = "renew"
                   ELSE /\ loop' = [loop EXCEPT ![k] = [NoLoop EXCEPT !.pc = "select"]]
                        /\ hist' = [RenewDone(TRUE, oldPort, newPort, << >>, 0, newPort)
                                      EXCEPT !.recorded = newPort]
                        /\ UNCHANGED rmu
           ELSE /\ UNCHANGED << rExternalPort, rmu >>
                /\ loop' = [loop EXCEPT ![k] = [NoLoop EXCEPT !.pc = "select"]]
                /\ hist' = RenewDone(TRUE, oldPort, newPort, << >>, 0, rExternalPort)
    /\ UNCHANGED << protocol, started, onPortChange, cycle,
                    doneClosed, tickerStopped, tickC, ticks >>
    /\ UNCHANGED << capVars, lstVars, caller, acq >>
    /\ UNCHANGED << now, expiresAt, call >>

RenewCommit(k) ==
    /\ loop[k].pc = "commit"
    /\ rmu = Free
    /\ LET newPort == loop[k].newPort
           oldPort == rExternalPort
       IN  IF newPort # oldPort
           THEN /\ rExternalPort' = newPort
                /\ IF onPortChange
                   THEN /\ loop' = [loop EXCEPT ![k].pc = "cb", ![k].oldPort = oldPort]
                        /\ hist' = [hist EXCEPT !.recorded = newPort]
                   ELSE /\ loop' = [loop EXCEPT ![k] = [NoLoop EXCEPT !.pc = "select"]]
                        /\ hist' = [RenewDone(TRUE, oldPort, newPort, << >>, 0, newPort)
                                      EXCEPT !.recorded = newPort]
           ELSE /\ UNCHANGED rExternalPort
                /\ loop' = [loop EXCEPT ![k] = [NoLoop EXCEPT !.pc = "select"]]
                /\ hist' = RenewDone(TRUE, oldPort, newPort, << >>, 0, rExternalPort)
    /\ UNCHANGED << protocol, started, onPortChange, rmu, cycle,
                    doneClosed, tickerStopped, tickC, ticks >>
    /\ UNCHANGED << capVars, lstVars, caller, acq >>
    /\ UNCHANGED << now, expiresAt, call >>


\* -------------------------------------------------------------- listeners

\* NATPacketListener.updateExternalPort, under l.mu: the new port, a new
\* NATAddr with the same network and internal endpoint, and the cached
\* wrapper's localAddr when the wrapper exists.
updateExternalPortNoWrapper(newPort) ==
    /\ lExternalPort' = newPort
    /\ addr' = NewNATAddr(addr.network, addr.internalAddr, Endpoint(ExternalIP, newPort))
    /\ addrs' = Append(addrs, addr')
    /\ UNCHANGED localAddr

updateExternalPortInPlace(newPort) ==
    /\ lExternalPort' = newPort
    /\ addr' = NewNATAddr(addr.network, addr.internalAddr, Endpoint(ExternalIP, newPort))
    /\ addrs' = [addrs EXCEPT ![Len(addrs)] = addr']
    /\ localAddr' = IF cached THEN addr' ELSE localAddr

updateExternalPort(newPort) ==
    /\ lExternalPort' = newPort
    /\ addr' = NewNATAddr(addr.network, addr.internalAddr, Endpoint(ExternalIP, newPort))
    /\ addrs' = Append(addrs, addr')
    /\ localAddr' = IF cached THEN addr' ELSE localAddr

\* NATListener.updateExternalPort (the callback ListenContext registers): the
\* stream listener has no wrapper to update.
updateExternalPortStream(newPort) ==
    /\ lExternalPort' = newPort
    /\ addr' = NewNATAddr(addr.network, addr.internalAddr, Endpoint(ExternalIP, newPort))
    /\ addrs' = Append(addrs, addr')
    /\ UNCHANGED localAddr

\* renew, last part: if newPort != oldPort && callback != nil { callback(newPort) },
\* with r.mu released. The callback registered by the constructors is the
\* listener's updateExternalPort, which takes l.mu.
RenewCallback(k) ==
    /\ loop[k].pc = "cb"
    /\ lmu = Free
    /\ IF kind = "packet"
       THEN updateExternalPort(loop[k].newPort)
       ELSE updateExternalPortStream(loop[k].newPort)
    /\ loop' = [loop EXCEPT ![k] = [NoLoop EXCEPT !.pc = "select"]]
    /\ hist' = RenewDone(TRUE, loop[k].oldPort, loop[k].newPort, << loop[k].newPort >>,
                         rExternalPort, rExternalPort)
    /\ UNCHANGED << protocol, started, rExternalPort, onPortChange, rmu, cycle,
                    doneClosed, tickerStopped, tickC, ticks >>
    /\ UNCHANGED << capVars, kind, renewal, fallback, closed, lmu, cached, onceDone, closeErr,
                    sockClosed, sockCloses, caller, acq >>
    /\ UNCHANGED << now, expiresAt, call >>

\* NATPacketListener.getOrCreatePacketConn, called with l.mu held: creates the
\* wrapper when l.cachedPacketConn is nil and returns l.cachedPacketConn. The
\* wrappers are numbered in the order of their creation.
getOrCreatePacketConnAlwaysNew ==
    /\ cached' = TRUE
    /\ localAddr' = addr
    /\ hist' = [hist EXCEPT !.wrappers = @ + 1]

getOrCreatePacketConn ==
    /\ cached' = TRUE
    /\ localAddr' = IF cached THEN localAddr ELSE addr
    /\ hist' = [hist EXCEPT !.wrappers = IF cached THEN @ ELSE @ + 1]

\* The call returns the wrapper getOrCreatePacketConn returned.
ReturnedConn(c, op) ==
    caller' = [caller EXCEPT ![c] = [pc |-> "idle", op |-> op, ret |-> "conn",
                                     val |-> hist'.wrappers, late |-> FALSE]]

\* Close of either listener, entry: takes l.mu; if l.closed it returns nil;
\* otherwise l.closed = true and it goes on to l.renewal.Stop() holding l.mu.
CloseEnterNoGuard(c) ==
    /\ Idle(c)
    /\ lmu = Free
    /\ closed' = TRUE
    /\ lmu' = c
    /\ caller' = [caller EXCEPT ![c] = [pc |-> "stop", op |-> "Close", ret |-> "none",
                                        val |-> 0, late |-> hist.closeReturned]]
    /\ UNCHANGED hist
    /\ UNCHANGED << rmVars, capVars, kind, renewal, fallback, lExternalPort, addr, addrs, cached, localAddr,
                    onceDone, closeErr, sockClosed, sockCloses, acq >>
    /\ UNCHANGED << now, expiresAt, call >>

CloseEnter(c) ==
    /\ Idle(c)
    /\ lmu = Free
    /\ IF closed
       THEN /\ Returned(c, "Close", "nil", hist.closeReturned)
            /\ hist' = [hist EXCEPT !.closeReturned = TRUE, !.lCloseReturned = TRUE]
            /\ UNCHANGED << closed, lmu >>
       ELSE /\ closed' = TRUE
            /\ lmu' = c
            /\ caller' = [caller EXCEPT ![c] = [pc |-> "stop", op |-> "Close",
                              ret |-> "none", val |-> 0, late |-> hist.closeReturned]]
            /\ UNCHANGED hist
    /\ UNCHANGED << rmVars, capVars, kind, renewal, fallback, lExternalPort, addr, addrs, cached, localAddr,
                    onceDone, closeErr, sockClosed, sockCloses, acq >>
    /\ UNCHANGED << now, expiresAt, call >>

\* Close: l.renewal.Stop(), up to Stop's UnmapPort call. Stop begins with
\* r.mu.Lock(): on the nil manager of a fallback listener that dereferences a
\* nil pointer and the call panics; the deferred l.mu.Unlock() runs, l.closed
\* stays true and the socket is not reached.
CloseStopSkipsStop(c) ==
    /\ caller[c].pc = "stop"
    /\ lmu = c
    /\ Goto(c, "sock")
    /\ UNCHANGED << started, doneClosed, tickerStopped, rmu, hist, lmu >>
    /\ UNCHANGED << protocol, rExternalPort, onPortChange, cycle, tickC, loop, ticks >>
    /\ UNCHANGED << capVars, kind, renewal, fallback, closed, lExternalPort, addr, addrs, cached,
                    localAddr, onceDone, closeErr, sockClosed, sockCloses, acq >>
    /\ UNCHANGED << now, expiresAt, call >>

CloseStop(c) ==
    /\ caller[c].pc = "stop"
    /\ lmu = c
    /\ IF renewal = "nil"
       THEN /\ Returned(c, "Close", "panic", caller[c].late)
            /\ lmu' = Free
            /\ UNCHANGED << started, doneClosed, tickerStopped, rmu, hist >>
       ELSE /\ StopEnter(c, "Close")
            /\ UNCHANGED lmu
    /\ UNCHANGED << protocol, rExternalPort, onPortChange, cycle, tickC, loop, ticks >>
    /\ UNCHANGED << capVars, kind, renewal, fallback, closed, lExternalPort, addr, addrs, cached,
                    localAddr, onceDone, closeErr, sockClosed, sockCloses, acq >>
    /\ UNCHANGED << now, expiresAt, call >>

\* Close, after Stop returned. NATPacketListener: if a NATPacketConn was
\* created, return l.cachedPacketConn.Close(); otherwise return l.conn.Close().
\* NATListener: return l.listener.Close(). l.mu is released on return.
CloseSocket(c) ==
    /\ caller[c].pc = "sock"
    /\ lmu = c
    /\ IF cached
       THEN /\ NATPacketConnClose
            /\ Returned(c, "Close", closeErr', caller[c].late)
            /\ hist' = [hist EXCEPT !.closeReturned = TRUE, !.lCloseReturned = TRUE,
                                    !.lSockCloses = IF onceDone THEN @ ELSE @ + 1]
       ELSE /\ SockClose
            /\ UNCHANGED << onceDone, closeErr >>
            /\ Returned(c, "Close", SockCloseResult, caller[c].late)
            /\ hist' = [hist EXCEPT !.closeReturned = TRUE, !.lCloseReturned = TRUE,
                                    !.lSockCloses = @ + 1]
    /\ lmu' = Free
    /\ UNCHANGED << rmVars, capVars, kind, renewal, fallback, closed, lExternalPort, addr, addrs, cached,
                    localAddr, acq >>
    /\ UNCHANGED << now, expiresAt, call >>

\* A caller closes the wrapper it got from Accept() or PacketConn().
WrapperClose(c) ==
    /\ Idle(c)
    /\ kind = "packet"
    /\ cached
    /\ NATPacketConnClose
    /\ Returned(c, "WrapperClose", closeErr', hist.closeReturned)
    /\ hist' = [hist EXCEPT !.closeReturned = TRUE, !.wCloseCalled = TRUE]
    /\ UNCHANGED << rmVars, capVars, kind, renewal, fallback, closed, lExternalPort, addr, addrs, lmu, cached,
                    localAddr, acq >>
    /\ UNCHANGED << now, expiresAt, call >>

\* Accept of either listener. NATPacketListener.Accept, under l.mu: an error
\* when closed, else the cached wrapper. NATListener.Accept reads l.closed
\* under l.mu and releases it: an error when closed, else it goes on to
\* l.listener.Accept() without the lock.
AcceptNoClosedCheck(c) ==
    /\ Idle(c)
    /\ lmu = Free
    /\ IF kind = "packet"
       THEN /\ getOrCreatePacketConn
            /\ ReturnedConn(c, "Accept")
       ELSE /\ caller' = [caller EXCEPT ![c] = [IdleCaller EXCEPT !.pc = "accept",
                                                                  !.op = "Accept"]]
            /\ UNCHANGED << cached, localAddr, hist >>
    /\ UNCHANGED << rmVars, capVars, kind, renewal, fallback, closed, lExternalPort, addr, addrs, lmu,
                    onceDone, closeErr, sockClosed, sockCloses, acq >>
    /\ UNCHANGED << now, expiresAt, call >>

Accept(c) ==
    /\ Idle(c)
    /\ lmu = Free
    /\ IF closed
       THEN /\ Returned(c, "Accept", "errListenerClosed", FALSE)
            /\ UNCHANGED << cached, localAddr, hist >>
       ELSE IF kind = "packet"
            THEN /\ getOrCreatePacketConn
                 /\ ReturnedConn(c, "Accept")
            ELSE /\ caller' = [caller EXCEPT ![c] = [IdleCaller EXCEPT !.pc = "accept",
                                                                       !.op = "Accept"]]
                 /\ UNCHANGED << cached, localAddr, hist >>
    /\ UNCHANGED << rmVars, capVars, kind, renewal, fallback, closed, lExternalPort, addr, addrs, lmu,
                    onceDone, closeErr, sockClosed, sockCloses, acq >>
    /\ UNCHANGED << now, expiresAt, call >>

\* NATListener.Accept, the rest: conn, err := l.listener.Accept() blocks until
\* a connection arrives, which is wrapped in a NATConn, or fails once the
\* socket is closed, and that error is returned.
AcceptSocket(c) ==
    /\ caller[c].pc = "accept"
    /\ IF sockClosed
       THEN Returned(c, "Accept", "errSocketClosed", FALSE)
       ELSE Returned(c, "Accept", "conn", FALSE)
    /\ UNCHANGED << rmVars, capVars, lstVars, hist, acq >>
    /\ UNCHANGED << now, expiresAt, call >>

\* NATPacketListener.PacketConn, under l.mu: the cached wrapper, created if
\* needed; l.closed is not consulted.
PacketConn(c) ==
    /\ Idle(c)
    /\ kind = "packet"
    /\ lmu = Free
    /\ getOrCreatePacketConn
    /\ ReturnedConn(c, "PacketConn")
    /\ UNCHANGED << rmVars, capVars, kind, renewal, fallback, closed, lExternalPort, addr, addrs, lmu,
                    onceDone, closeErr, sockClosed, sockCloses, acq >>
    /\ UNCHANGED << now, expiresAt, call >>

\* What ExternalPort() and Addr() return: l.externalPort and l.addr, read
\* under l.mu.
ListenerExternalPort == lExternalPort

ListenerAddr == addr

\* The wrapper's LocalAddr(): c.localAddr.
LocalAddr == localAddr

ExternalPort(c) ==
    /\ Idle(c)
    /\ lmu = Free
    /\ Answered(c, "ExternalPort", ListenerExternalPort)
    /\ UNCHANGED << rmVars, capVars, lstVars, hist, acq >>
    /\ UNCHANGED << now, expiresAt, call >>

Addr(c) ==
    /\ Idle(c)
    /\ lmu = Free
    /\ Answered(c, "Addr", ListenerAddr.externalAddr[2])
    /\ UNCHANGED << rmVars, capVars, lstVars, hist, acq >>
    /\ UNCHANGED << now, expiresAt, call >>

\* ------------------------------------------- direct use of the manager

Start(c) ==
    /\ Idle(c)
    /\ StartBody(c)
    /\ UNCHANGED << capVars, lstVars, hist, acq >>
    /\ UNCHANGED << now, expiresAt, call >>

Stop(c) ==
    /\ Idle(c)
    /\ StopEnter(c, "Stop")
    /\ UNCHANGED << protocol, rExternalPort, onPortChange, cycle, tickC, loop, ticks >>
    /\ UNCHANGED << capVars, lstVars, acq >>
    /\ UNCHANGED << now, expiresAt, call >>

\* ------------------------------------------------------- specifications

\* A listener returned by ListenContext or ListenPacketContext: the callback
\* is registered and the manager started (listener.go:71-72).
Init ==
    /\ \E k \in {"stream", "packet"} :
         /\ InitListener(k)
         /\ InitCapability(k)
         /\ protocol = ProtocolOf(k)
    /\ started = TRUE
    /\ rExternalPort = InternalPort
    /\ onPortChange = TRUE
    /\ rmu = Free
    /\ cycle = 1
    /\ doneClosed = {}
    /\ tickerStopped = {}
    /\ tickC = [c \in Cycles |-> 0]
    /\ loop = [c \in Cycles |-> IF c = 1 THEN [NoLoop EXCEPT !.pc = "select"] ELSE NoLoop]
    /\ ticks = 0
    /\ caller = [c \in Callers |-> IdleCaller]
    /\ hist = InitHist
    /\ acq = NoAcq

Background ==
    \E k \in Cycles :
        \/ Tick(k)
        \/ LoopTick(k)
        \/ LoopDone(k)
        \/ RenewMapPort(k)
        \/ RenewCommit(k)
        \/ RenewCallback(k)

Next ==
    \/ Background
    \/ \E c \in Callers :
        \/ CloseEnter(c)
        \/ CloseStop(c)
        \/ StopUnmap(c)
        \/ CloseSocket(c)
        \/ WrapperClose(c)
        \/ Accept(c)
        \/ AcceptSocket(c)
        \/ PacketConn(c)
        \/ ExternalPort(c)
        \/ Addr(c)

Spec == Init /\ [][Next]_vars

\* A Renewal Manager made by NewRenewalManager for a mapping that exists,
\* with the packet listener's callback registered or none, driven by Start
\* and Stop.
InitRM ==
    /\ InitListener("packet")
    /\ InitCapability("packet")
    /\ InitManager("packet")
    /\ onPortChange \in BOOLEAN
    /\ caller = [c \in Callers |-> IdleCaller]
    /\ hist = InitHist
    /\ acq = NoAcq

NextRM ==
    \/ Background
    \/ \E c \in Callers :
        \/ Start(c)
        \/ Stop(c)
        \/ StopUnmap(c)

SpecRM == InitRM /\ [][NextRM]_vars


\* A step of the renewLoop goroutine of cycle k.
LoopStep(k) ==
    \/ LoopTick(k)
    \/ LoopDone(k)
    \/ RenewMapPort(k)
    \/ RenewCommit(k)
    \/ RenewCallback(k)

\* The manager under a scheduler that keeps running every goroutine that can
\* take a step, with capability calls that return: each renewLoop goroutine
\* goes on while it can, and the UnmapPort call of a Stop returns.
\* Start and Stop are called by one goroutine, one call at a time, on a
\* manager with the port-change callback registered.
NextRMLive ==
    \/ Background
    \/ Start("c1")
    \/ Stop("c1")
    \/ StopUnmap("c1")

InitRMLive == InitRM /\ onPortChange

SpecRMLive ==
    /\ InitRMLive
    /\ [][NextRMLive]_vars
    /\ \A k \in Cycles : WF_vars(LoopStep(k))
    /\ WF_vars(StopUnmap("c1"))

\* A packet listener with one goroutine calling Close and another calling
\* Accept, PacketConn, ExternalPort and Addr, under a scheduler that keeps
\* running every goroutine that can take a step, with capability and socket
\* calls that return: the renewLoop goroutines go on while they can, and the
\* caller inside Close takes its next step.
InitLive == Init /\ kind = "packet"

NextLive ==
    \/ Background
    \/ CloseEnter("c1")
    \/ CloseStop("c1")
    \/ StopUnmap("c1")
    \/ CloseSocket("c1")
    \/ Accept("c2")
    \/ PacketConn("c2")
    \/ ExternalPort("c2")
    \/ Addr("c2")

SpecLive ==
    /\ InitLive
    /\ [][NextLive]_vars
    /\ \A k \in Cycles : WF_vars(LoopStep(k))
    /\ WF_vars(CloseStop("c1") \/ StopUnmap("c1") \/ CloseSocket("c1"))

\* ------------------------------------------------------------ lease timing

\* The renewLoop goroutine of cycle k waits in its select with no tick buffered.
LoopWaiting(k) == loop[k].pc = "select" /\ tickC[k] = 0

\* A minute passes. The ticker made by time.NewTicker(renewalInterval) at
\* Start (time 0) fires every renewalInterval minutes, so time does not pass
\* the instant of the next tick before that tick is delivered; a renew step
\* takes no time (the capability answers at once).
Advance ==
    /\ started
    /\ LoopWaiting(cycle)
    /\ now < (ticks + 1) * renewalInterval
    /\ now' = now + 1
    /\ UNCHANGED << rmVars, capVars, lstVars, caller, hist, acq, expiresAt, call >>

\* The ticker of cycle k fires at its instant.
TimedTick(k) ==
    /\ k = cycle
    /\ k \notin tickerStopped
    /\ tickC[k] = 0
    /\ ticks < MaxTicks
    /\ now = (ticks + 1) * renewalInterval
    /\ tickC' = [tickC EXCEPT ![k] = 1]
    /\ ticks' = ticks + 1
    /\ UNCHANGED << protocol, started, rExternalPort, onPortChange, rmu, cycle,
                    doneClosed, tickerStopped, loop >>
    /\ UNCHANGED << capVars, lstVars, caller, hist, acq, now, expiresAt, call >>

\* MockPortMapper.GetActiveMappings lists a mapping that is recorded and for
\* which time.Now().Before(v.ExpiresAt) holds.
ActiveMapping(proto, extPort) ==
    /\ MappingKey(proto, extPort) \in mappings
    /\ now < expiresAt[extPort]

\* A listener whose mapping was leased at time 0 and whose manager was started
\* then; the ticker and the renew steps run in time.
NextLease ==
    \/ Advance
    \/ \E k \in Cycles :
        \/ TimedTick(k)
        \/ LoopTick(k)
        \/ RenewMapPort(k)
        \/ RenewCommit(k)
        \/ RenewCallback(k)

SpecLease == Init /\ [][NextLease]_vars

\* ------------------------------------------------- the capability's calls

\* Protocols and internal ports handed to MapPort (the table of
\* TestPortMappingCreationAndDeletion: -1, 0, 1, 8080, 65535, 65536).
CallProtocols == {"TCP", "UDP", "SCTP"}
CallPorts == {0 - 1, 0, 1, InternalPort, 65535, 65536}

\* The capabilities behind PortMapper and the settings of the mock: as
\* NewMockPortMapper makes it, or with SetFailureRate, SetProtocolSupport(false,
\* false) or port exhaustion switched on.
Mappers == {"mock", "upnp", "natpmp"}
MockSettings == {"default", "failureRate", "noProtocols", "portExhaustion"}
NATTypes == {"FullConeNAT", "RestrictedNAT", "SymmetricNAT"}

\* m.rng.Intn(10000): the smallest and the largest offset.
SymmetricOffsets == {0, 9999}

\* Mappings recorded before the call.
OtherMappings == { MappingKey("TCP", InternalPort), MappingKey("UDP", InternalPort) }

\* MockPortMapper.generateExternalPort
generateExternalPort(natType, internalPort, off) ==
    CASE natType = "FullConeNAT" -> internalPort
      [] natType = "RestrictedNAT" -> internalPort + 1000
      [] natType = "SymmetricNAT" -> internalPort + off
      [] OTHER -> internalPort

\* if internalPort < 1 || internalPort > 65535 (UPnPMapper and NATPMPMapper)
InvalidPort(port) == port < 1 \/ port > 65535

ValidProtocol(proto) == proto \in {"TCP", "UDP"}

\* The result of a call: the error, the port returned and the mappings left.
CallResult(err, port, maps) == [err |-> err, port |-> port, maps |-> maps]

\* MockPortMapper.MapPort: the simulated failure, the protocol, the protocol
\* support, port exhaustion; then the mapping is recorded under
\* "protocol:externalPort". The internal port is not examined.
MockPortMapperMapPort(setting, natType, proto, internalPort, fail, off) ==
    IF setting = "failureRate" /\ fail THEN CallResult("randomFailure", 0, mappings)
    ELSE IF ~ValidProtocol(proto) THEN CallResult("unsupportedProtocol", 0, mappings)
    ELSE IF setting = "noProtocols" THEN CallResult("noProtocols", 0, mappings)
    ELSE IF setting = "portExhaustion" THEN CallResult("noPorts", 0, mappings)
    ELSE LET externalPort == generateExternalPort(natType, internalPort, off)
         IN  CallResult("nil", externalPort, MockMapPort(proto, externalPort))

\* NATPMPMapper.MapPort: the port range, the protocol (strings.ToUpper of it;
\* the protocols called with are upper case), then the device, which
\* maps the requested port or fails.
NATPMPMapperMapPort(proto, internalPort, deviceOk) ==
    IF InvalidPort(internalPort) THEN CallResult("invalidPort", 0, mappings)
    ELSE IF ~ValidProtocol(proto) THEN CallResult("unsupportedProtocol", 0, mappings)
    ELSE IF ~deviceOk THEN CallResult("deviceError", 0, mappings)
    ELSE CallResult("nil", internalPort, MockMapPort(proto, internalPort))

\* UPnPMapper.MapPort: the port range, then the device; the protocol is handed
\* to the device as it is, and the device refuses one that is not TCP or UDP.
UPnPMapperMapPort(proto, internalPort, deviceOk) ==
    IF InvalidPort(internalPort) THEN CallResult("invalidPort", 0, mappings)
    ELSE IF ~deviceOk \/ ~ValidProtocol(proto) THEN CallResult("deviceError", 0, mappings)
    ELSE CallResult("nil", internalPort, MockMapPort(proto, internalPort))

\* UnmapPort of the three capabilities. The mock deletes the key when present
\* and fails only by its simulated failure; the others check the port range
\* (and NAT-PMP the protocol) and ask the device.
MapperUnmapPort(mapper, setting, proto, externalPort, fail) ==
    IF mapper = "mock"
    THEN IF setting = "failureRate" /\ fail
         THEN CallResult("randomFailure", 0, mappings)
         ELSE CallResult("nil", 0, MockUnmapPort(proto, externalPort))
    ELSE IF InvalidPort(externalPort) THEN CallResult("invalidPort", 0, mappings)
    ELSE IF mapper = "natpmp" /\ ~ValidProtocol(proto)
         THEN CallResult("unsupportedProtocol", 0, mappings)
    ELSE IF fail THEN CallResult("deviceError", 0, mappings)
    ELSE CallResult("nil", 0, MockUnmapPort(proto, externalPort))

CallOnly ==
    UNCHANGED << rmVars, unmaps, capFailed, lstVars, caller, hist, acq, now, expiresAt >>

\* externalPort, err := mapper.MapPort(protocol, port, duration)
MapPortCall ==
    /\ call.fn = "MapPort"
    /\ call.pc = "map"
    /\ \E fail \in BOOLEAN, off \in SymmetricOffsets :
         LET res == CASE call.mapper = "mock" ->
                           MockPortMapperMapPort(call.setting, call.natType, call.protocol,
                                                 call.port, fail, off)
                      [] call.mapper = "natpmp" ->
                           NATPMPMapperMapPort(call.protocol, call.port, ~fail)
                      [] call.mapper = "upnp" ->
                           UPnPMapperMapPort(call.protocol, call.port, ~fail)
         IN  /\ mappings' = res.maps
             /\ call' = [call EXCEPT !.pc = "mapped", !.err = res.err, !.externalPort = res.port]
    /\ CallOnly

\* err = mapper.UnmapPort(protocol, externalPort), right after a MapPort that
\* succeeded.
UnmapPortCall ==
    /\ call.fn = "MapPort"
    /\ call.pc = "mapped"
    /\ call.err = "nil"
    /\ \E fail \in BOOLEAN :
         LET res == MapperUnmapPort(call.mapper, call.setting, call.protocol,
                                    call.externalPort, fail)
         IN  /\ mappings' = res.maps
             /\ call' = [call EXCEPT !.pc = "unmapped", !.unmapErr = res.err]
    /\ CallOnly

\* A capability with some mappings recorded and a MapPort call to make.
InitCapabilityCall ==
    /\ InitListener("packet")
    /\ InitManager("packet")
    /\ onPortChange = FALSE
    /\ mappings \in SUBSET OtherMappings
    /\ unmaps = << >>
    /\ capFailed = FALSE
    /\ now = 0
    /\ expiresAt = NoLease
    /\ caller = [c \in Callers |-> IdleCaller]
    /\ hist = InitHist
    /\ acq = NoAcq
    /\ \E mapper \in Mappers, setting \in MockSettings, natType \in NATTypes,
          proto \in CallProtocols, port \in CallPorts :
         /\ mapper # "mock" => (setting = "default" /\ natType = "FullConeNAT")
         /\ call = [fn |-> "MapPort", pc |-> "map", mapper |-> mapper, setting |-> setting,
                    natType |-> natType, protocol |-> proto, port |-> port,
                    before |-> mappings, err |-> "none", externalPort |-> 0,
                    unmapErr |-> "none"]

NextCapabilityCall ==
    \/ MapPortCall
    \/ UnmapPortCall

SpecCapabilityCall == InitCapabilityCall /\ [][NextCapabilityCall]_vars

\* --------------------------------------------------- functions on strings

\* A string is the sequence of its characters.

\* The program's other state while a function is called on its own.
NoProgramState ==
    /\ InitListener("packet")
    /\ InitManager("packet")
    /\ onPortChange = FALSE
    /\ mappings = {}
    /\ unmaps = << >>
    /\ capFailed = FALSE
    /\ now = 0
    /\ expiresAt = NoLease
    /\ caller = [c \in Callers |-> IdleCaller]
    /\ hist = InitHist
    /\ acq = NoAcq

FunctionOnly ==
    UNCHANGED << rmVars, capVars, lstVars, caller, hist, acq, now, expiresAt >>

\* encoding/hex fromHexChar: the value of a hex digit of either case, or -1.
HexDigits ==
    [ upper |-> << "0", "1", "2", "3", "4", "5", "6", "7", "8", "9", "A", "B", "C", "D", "E", "F" >>,
      lower |-> << "a", "b", "c", "d", "e", "f" >> ]

fromHexChar(ch) ==
    IF \E i \in 1..16 : HexDigits.upper[i] = ch
    THEN (CHOOSE i \in 1..16 : HexDigits.upper[i] = ch) - 1
    ELSE IF \E i \in 1..6 : HexDigits.lower[i] = ch
         THEN (CHOOSE i \in 1..6 : HexDigits.lower[i] = ch) + 9
         ELSE 0 - 1

\* hex.DecodeString on a string of even length: the bytes, or an error when a
\* character is not a hex digit.
DecodeString(s) ==
    IF \E i \in 1..Len(s) : fromHexChar(s[i]) < 0
    THEN [err |-> "invalidByte", bytes |-> << >>]
    ELSE [err |-> "nil",
          bytes |-> [i \in 1..(Len(s) \div 2) |->
                        (16 * fromHexChar(s[2 * i - 1]) + fromHexChar(s[2 * i])) % 256]]

\* parseHexIP without the reversal of the bytes.
parseHexIPBigEndian(hexIP) ==
    IF Len(hexIP) # 8 THEN [err |-> "invalidLength", ip |-> << >>]
    ELSE LET d == DecodeString(hexIP)
         IN  IF d.err # "nil" THEN [err |-> "invalidHex", ip |-> << >>]
             ELSE [err |-> "nil", ip |-> << d.bytes[1], d.bytes[2], d.bytes[3], d.bytes[4] >>]

\* parseHexIP: the length must be 8, the string must decode as hex, and the
\* address is net.IPv4(bytes[3], bytes[2], bytes[1], bytes[0]).
parseHexIP(hexIP) ==
    IF Len(hexIP) # 8 THEN [err |-> "invalidLength", ip |-> << >>]
    ELSE LET d == DecodeString(hexIP)
         IN  IF d.err # "nil" THEN [err |-> "invalidHex", ip |-> << >>]
             ELSE [err |-> "nil", ip |-> << d.bytes[4], d.bytes[3], d.bytes[2], d.bytes[1] >>]

\* Two hex digits and the byte they denote (TestParseHexIP's bytes, and "c0"
\* in lower case).
ByteTexts ==
    { [text |-> << "0", "0" >>, value |-> 0],   [text |-> << "0", "1" >>, value |-> 1],
      [text |-> << "0", "A" >>, value |-> 10],  [text |-> << "A", "8" >>, value |-> 168],
      [text |-> << "C", "0" >>, value |-> 192], [text |-> << "c", "0" >>, value |-> 192],
      [text |-> << "F", "E" >>, value |-> 254], [text |-> << "F", "F" >>, value |-> 255] }

\* The ways the argument is made from four bytes' texts: as it is, cut to 6 or
\* 7 characters, extended by a byte, empty, or with one character replaced by
\* a character that is no hex digit.

HexInput(b, shape, pos, ch) ==
    LET full == b[1].text \o b[2].text \o b[3].text \o b[4].text
    IN  CASE shape = "ok" -> full
          [] shape = "short6" -> SubSeq(full, 1, 6)
          [] shape = "short7" -> SubSeq(full, 1, 7)
          [] shape = "long" -> full \o b[1].text
          [] shape = "empty" -> << >>
          [] shape = "nonhex" -> [full EXCEPT ![pos] = ch]

\* A call parseHexIP(hexIP) to make; `bytes` are the values the texts denote,
\* in text order.
InitHexIP ==
    /\ NoProgramState
    /\ \E b \in [1..4 -> ByteTexts],
          shape \in { "ok", "short6", "short7", "long", "empty", "nonhex" },
          pos \in {1, 4, 8}, ch \in { "Z", "G", " ", "x" } :
         /\ shape # "nonhex" => (pos = 1 /\ ch = "Z")
         /\ call = [fn |-> "parseHexIP", pc |-> "call", shape |-> shape,
                    hexIP |-> HexInput(b, shape, pos, ch),
                    bytes |-> [i \in 1..4 |-> b[i].value],
                    result |-> [err |-> "none", ip |-> << >>]]

CallParseHexIP ==
    /\ call.fn = "parseHexIP"
    /\ call.pc = "call"
    /\ call' = [call EXCEPT !.pc = "done", !.result = parseHexIP(call.hexIP)]
    /\ FunctionOnly
    /\ UNCHANGED << mappings >>

SpecHexIP == InitHexIP /\ [][CallParseHexIP]_vars

\* ------------------------------------------------ Linux route-table reader

\* Field texts of /proc/net/route.
RouteText ==
    [ HexZero |-> << "0", "0", "0", "0", "0", "0", "0", "0" >>,
      HexNet |-> << "0", "0", "0", "1", "A", "8", "C", "0" >>,
      HexGateway1 |-> << "0", "1", "0", "1", "A", "8", "C", "0" >>,
      HexGateway254 |-> << "F", "E", "0", "1", "A", "8", "C", "0" >>,
      HexTruncated |-> << "0", "1", "0", "1", "A", "8" >>,
      HexNotHex |-> << "Z", "Z", "Z", "Z", "Z", "Z", "Z", "Z" >>,
      Eth0 |-> << "e", "t", "h", "0" >>,
      Flags3 |-> << "0", "0", "0", "3" >> ]
IPv4zero == << 0, 0, 0, 0 >>
NoIP == << >>

\* The records a table is made of, each with the fields strings.Fields gives
\* for its line, its kind and, for a default record with a real gateway, the
\* address its gateway field denotes.
RouteRecords ==
    { [fields |-> << >>, kind |-> "short", ip |-> NoIP],
      [fields |-> << RouteText.Eth0, RouteText.HexZero >>, kind |-> "short", ip |-> NoIP],
      [fields |-> << RouteText.Eth0, RouteText.HexNet, RouteText.HexGateway1, RouteText.Flags3 >>, kind |-> "other", ip |-> NoIP],
      [fields |-> << RouteText.Eth0, RouteText.HexNet, RouteText.HexTruncated >>, kind |-> "other", ip |-> NoIP],
      [fields |-> << RouteText.Eth0, RouteText.HexZero, RouteText.HexZero, RouteText.Flags3 >>, kind |-> "zero", ip |-> NoIP],
      [fields |-> << RouteText.Eth0, RouteText.HexZero, RouteText.HexGateway1, RouteText.Flags3 >>, kind |-> "addr", ip |-> << 192, 168, 1, 1 >>],
      [fields |-> << RouteText.Eth0, RouteText.HexZero, RouteText.HexGateway254 >>, kind |-> "addr", ip |-> << 192, 168, 1, 254 >>],
      [fields |-> << RouteText.Eth0, RouteText.HexZero, RouteText.HexTruncated, RouteText.Flags3 >>, kind |-> "malformed", ip |-> NoIP],
      [fields |-> << RouteText.Eth0, RouteText.HexZero, RouteText.HexNotHex, RouteText.Flags3 >>, kind |-> "malformed", ip |-> NoIP] }

MaxRecords == 3

\* The first line of a table: the column titles, or (a table written without
\* titles) a default record.
HeaderLines ==
    { << << "I", "f", "a", "c", "e" >>, << "D", "e", "s", "t" >>, << "G", "a", "t", "e" >> >>,
      << RouteText.Eth0, RouteText.HexZero, RouteText.HexGateway254, RouteText.Flags3 >> }

\* os.Open's outcomes.
OpenOutcomes == { "ok", "notExist", "denied" }

Found(ip) == [err |-> "nil", gateway |-> ip]
NotFound == [err |-> "nil", gateway |-> NoIP]
Failed(e) == [err |-> e, gateway |-> NoIP]

RECURSIVE ScanRoutesNoZeroSkip(_, _, _)
\* The scan loop without the test for a 0.0.0.0 gateway.
ScanRoutesNoZeroSkip(lines, i, readErr) ==
    IF i > Len(lines)
    THEN IF readErr THEN Failed("errorReading") ELSE NotFound
    ELSE LET fields == lines[i]
         IN  IF Len(fields) < 3 THEN ScanRoutesNoZeroSkip(lines, i + 1, readErr)
             ELSE IF fields[2] = RouteText.HexZero
                  THEN LET g == parseHexIP(fields[3])
                       IN  IF g.err # "nil" THEN Failed("failedToParseGateway")
                           ELSE Found(g.ip)
                  ELSE ScanRoutesNoZeroSkip(lines, i + 1, readErr)

RECURSIVE ScanRoutes(_, _, _)
\* The loop `for scanner.Scan()` from line i on, and what follows it: a read
\* error ends the loop after the lines read before it.
ScanRoutes(lines, i, readErr) ==
    IF i > Len(lines)
    THEN IF readErr THEN Failed("errorReading") ELSE NotFound
    ELSE LET fields == lines[i]
         IN  IF Len(fields) < 3 THEN ScanRoutes(lines, i + 1, readErr)
             ELSE IF fields[2] = RouteText.HexZero
                  THEN LET g == parseHexIP(fields[3])
                       IN  IF g.err # "nil" THEN Failed("failedToParseGateway")
                           ELSE IF g.ip # IPv4zero THEN Found(g.ip)
                           ELSE ScanRoutes(lines, i + 1, readErr)
                  ELSE ScanRoutes(lines, i + 1, readErr)

\* readDefaultGateway over the outcome of os.Open, the lines of the file and
\* whether reading fails after them.
readDefaultGateway(open, lines, readErr) ==
    IF open = "notExist" THEN NotFound
    ELSE IF open # "ok" THEN Failed("failedToOpen")
    ELSE IF Len(lines) = 0 THEN Failed("emptyRoutingTable")
    ELSE ScanRoutes(lines, 2, readErr)

RouteTables == UNION { [1..n -> RouteRecords] : n \in 0..MaxRecords }

\* A call readDefaultGateway() to make: `records` are the records after the
\* first line.
InitRoute ==
    /\ NoProgramState
    /\ \E open \in OpenOutcomes, header \in HeaderLines \cup { << >> },
          records \in RouteTables, readErr \in BOOLEAN :
         /\ open # "ok" => (header = << >> /\ records = << >> /\ ~readErr)
         /\ header = << >> => records = << >>
         /\ call = [fn |-> "readDefaultGateway", pc |-> "call", open |-> open,
                    lines |-> IF header = << >> THEN << >>
                              ELSE << header >> \o [i \in 1..Len(records) |-> records[i].fields],
                    records |-> records, readErr |-> readErr,
                    result |-> Failed("none")]

CallReadDefaultGateway ==
    /\ call.fn = "readDefaultGateway"
    /\ call.pc = "call"
    /\ call' = [call EXCEPT !.pc = "done",
                            !.result = readDefaultGateway(call.open, call.lines, call.readErr)]
    /\ FunctionOnly
    /\ UNCHANGED << mappings >>

SpecRoute == InitRoute /\ [][CallReadDefaultGateway]_vars

\* ------------------------------------------------- BSD netstat -rn parser

\* Field texts of `netstat -rn`.
NetstatText ==
    [ Default |-> << "d", "e", "f", "a", "u", "l", "t" >>,
      Dest0000 |-> << "0", ".", "0", ".", "0", ".", "0" >>,
      Dest0000Slash0 |-> << "0", ".", "0", ".", "0", ".", "0", "/", "0" >>,
      TitleDestination |-> << "D", "e", "s", "t", "i", "n", "a", "t", "i", "o", "n" >>,
      TitleGateway |-> << "G", "a", "t", "e", "w", "a", "y" >>,
      Internet |-> << "I", "n", "t", "e", "r", "n", "e", "t", ":" >>,
      Routing |-> << "R", "o", "u", "t", "i", "n", "g" >>,
      Tables |-> << "t", "a", "b", "l", "e", "s" >>,
      Gw192_168_1_1 |-> << "1", "9", "2", ".", "1", "6", "8", ".", "1", ".", "1" >>,
      Gw10_0_0_1 |-> << "1", "0", ".", "0", ".", "0", ".", "1" >>,
      Gw127_0_0_1 |-> << "1", "2", "7", ".", "0", ".", "0", ".", "1" >>,
      GwLink5 |-> << "l", "i", "n", "k", "#", "5" >>,
      GwEn0 |-> << "e", "n", "0" >>,
      GwScoped |-> << "1", "9", "2", ".", "1", "6", "8", ".", "1", ".", "1", "%", "e", "n", "0" >>,
      GwV6Scoped |-> << "f", "e", "8", "0", ":", ":", "1", "%", "e", "n", "0" >>,
      GwOutOfRange |-> << "9", "9", "9", ".", "1", ".", "1", ".", "1" >>,
      GwLinkDotted |-> << "l", "i", "n", "k", "#", "5", ".", "1" >>,
      FlagsUGSc |-> << "U", "G", "S", "c" >>,
      FlagsUH |-> << "U", "H" >>,
      Lo0 |-> << "l", "o", "0" >> ]

\* strings.Contains and strings.Index for a one-character substring
\* (Index counts from 0 and is -1 when the character is absent).
Contains(s, ch) == \E i \in 1..Len(s) : s[i] = ch

Index(s, ch) ==
    IF Contains(s, ch)
    THEN (CHOOSE i \in 1..Len(s) : s[i] = ch /\ \A j \in 1..(i - 1) : s[j] # ch) - 1
    ELSE 0 - 1

RECURSIVE Split(_, _)
\* The parts of s between the occurrences of ch.
Split(s, ch) ==
    IF ~Contains(s, ch) THEN << s >>
    ELSE LET i == Index(s, ch) + 1
         IN  << SubSeq(s, 1, i - 1) >> \o Split(SubSeq(s, i + 1, Len(s)), ch)

\* The value of a decimal digit, or -1.
DigitVal(ch) ==
    IF \E i \in 1..10 : HexDigits.upper[i] = ch
    THEN (CHOOSE i \in 1..10 : HexDigits.upper[i] = ch) - 1
    ELSE 0 - 1

RECURSIVE Decimal(_)
Decimal(p) ==
    IF Len(p) = 0 THEN 0
    ELSE 10 * Decimal(SubSeq(p, 1, Len(p) - 1)) + DigitVal(p[Len(p)])

\* One field of a dotted-decimal address: 1 to 3 digits, no leading zero,
\* at most 255; -1 otherwise.
Octet(p) ==
    IF \/ Len(p) = 0
       \/ Len(p) > 3
       \/ \E i \in 1..Len(p) : DigitVal(p[i]) < 0
       \/ (Len(p) > 1 /\ p[1] = "0")
    THEN 0 - 1
    ELSE IF Decimal(p) > 255 THEN 0 - 1 ELSE Decimal(p)

\* net.ParseIP followed by To4, for texts without ":" : the four bytes of a
\* dotted-decimal address, or nil.
ParseIP(s) ==
    LET parts == Split(s, ".")
    IN  IF Len(parts) # 4 \/ Contains(s, ":") \/ \E i \in 1..Len(parts) : Octet(parts[i]) < 0
        THEN NoIP
        ELSE [i \in 1..4 |-> Octet(parts[i])]

RECURSIVE ScanNetstat(_, _)
\* The loop of parseNetstatOutput from row i on; a row is the fields
\* strings.Fields gives for its line.
ScanNetstat(rows, i) ==
    IF i > Len(rows) THEN NotFound
    ELSE LET fields == rows[i]
         IN  IF Len(fields) < 2 THEN ScanNetstat(rows, i + 1)
             ELSE IF fields[1] \in { NetstatText.Default, NetstatText.Dest0000, NetstatText.Dest0000Slash0 }
                  THEN LET gatewayStr == fields[2]
                       IN  IF Contains(gatewayStr, "#") \/ ~Contains(gatewayStr, ".")
                           THEN ScanNetstat(rows, i + 1)
                           ELSE LET idx == Index(gatewayStr, "%")
                                    text == IF idx # 0 - 1 THEN SubSeq(gatewayStr, 1, idx)
                                            ELSE gatewayStr
                                    gateway == ParseIP(text)
                                IN  IF gateway # NoIP THEN Found(gateway)
                                    ELSE ScanNetstat(rows, i + 1)
                  ELSE ScanNetstat(rows, i + 1)

parseNetstatOutput(rows) == ScanNetstat(rows, 1)

\* The rows an output is made of.
NetstatRows ==
    { << >>,
      << NetstatText.Internet >>,
      << NetstatText.Routing, NetstatText.Tables >>,
      << NetstatText.TitleDestination, NetstatText.TitleGateway >>,
      << NetstatText.Default, NetstatText.Gw192_168_1_1, NetstatText.FlagsUGSc, NetstatText.GwEn0 >>,
      << NetstatText.Default, NetstatText.GwLink5, NetstatText.FlagsUGSc, NetstatText.GwEn0 >>,
      << NetstatText.Default, NetstatText.GwEn0 >>,
      << NetstatText.Default, NetstatText.GwScoped, NetstatText.FlagsUGSc, NetstatText.GwEn0 >>,
      << NetstatText.Default, NetstatText.GwV6Scoped, NetstatText.FlagsUGSc, NetstatText.GwEn0 >>,
      << NetstatText.Default, NetstatText.GwOutOfRange, NetstatText.FlagsUGSc >>,
      << NetstatText.Default, NetstatText.GwLinkDotted, NetstatText.FlagsUGSc >>,
      << NetstatText.Dest0000, NetstatText.Gw10_0_0_1, NetstatText.FlagsUGSc >>,
      << NetstatText.Dest0000Slash0, NetstatText.Gw10_0_0_1, NetstatText.FlagsUGSc >>,
      << NetstatText.Gw192_168_1_1, NetstatText.Gw192_168_1_1, NetstatText.FlagsUGSc, NetstatText.GwEn0 >>,
      << NetstatText.Gw127_0_0_1, NetstatText.Gw127_0_0_1, NetstatText.FlagsUH, NetstatText.Lo0 >> }

MaxRows == 2

\* The outputs of TestParseNetstatOutput "macOS format with default" and
\* "Link-local gateway (should skip)".
MacOSOutput ==
    << << NetstatText.Routing, NetstatText.Tables >>, << >>, << NetstatText.Internet >>,
       << NetstatText.TitleDestination, NetstatText.TitleGateway >>,
       << NetstatText.Default, NetstatText.Gw192_168_1_1, NetstatText.FlagsUGSc, NetstatText.GwEn0 >>,
       << NetstatText.Gw127_0_0_1, NetstatText.Gw127_0_0_1, NetstatText.FlagsUH, NetstatText.Lo0 >> >>

LinkLocalOutput ==
    << << NetstatText.Routing, NetstatText.Tables >>, << >>, << NetstatText.Internet >>,
       << NetstatText.TitleDestination, NetstatText.TitleGateway >>,
       << NetstatText.Default, NetstatText.GwLink5, NetstatText.FlagsUGSc, NetstatText.GwEn0 >>,
       << NetstatText.Gw192_168_1_1, NetstatText.Gw192_168_1_1, NetstatText.FlagsUGSc, NetstatText.GwEn0 >> >>

NetstatOutputs ==
    UNION { [1..n -> NetstatRows] : n \in 0..MaxRows } \cup { MacOSOutput, LinkLocalOutput }

\* A call parseNetstatOutput(output) to make.
InitNetstat ==
    /\ NoProgramState
    /\ \E rows \in NetstatOutputs :
         call = [fn |-> "parseNetstatOutput", pc |-> "call", rows |-> rows,
                 result |-> Failed("none")]

CallParseNetstatOutput ==
    /\ call.fn = "parseNetstatOutput"
    /\ call.pc = "call"
    /\ call' = [call EXCEPT !.pc = "done", !.result = parseNetstatOutput(call.rows)]
    /\ FunctionOnly
    /\ UNCHANGED << mappings >>

SpecNetstat == InitNetstat /\ [][CallParseNetstatOutput]_vars

\* ------------------------------------------- Windows `route print` parser

\* The lines an output is made of: the text, what the line is (the section
\* delimiter, the line that opens the Active Routes section, a default row
\* with an IPv4 gateway, the same row cut to three fields, or anything else)
\* and the gateway a default row names.
WindowsLines ==
    [ Delimiter |-> [text |-> << "=", "=", "=", "=", "=" >>,
                  kind |-> "delim", ip |-> NoIP],
      ActiveRoutes |-> [text |-> << "A", "c", "t", "i", "v", "e", " ", "R", "o", "u", "t", "e", "s", ":" >>,
                     kind |-> "active", ip |-> NoIP],
      Title |-> [text |-> << "I", "P", "v", "4", " ", "R", "o", "u", "t", "e", " ", "T", "a", "b", "l", "e" >>,
              kind |-> "other", ip |-> NoIP],
      Header |-> [text |-> << "N", "e", "t", "w", "o", "r", "k", " ", "D", "e", "s", "t", "i", "n", "a", "t", "i", "o", "n", " ", "N", "e", "t", "m", "a", "s", "k", " ", "G", "a", "t", "e", "w", "a", "y", " ", "I", "n", "t", "e", "r", "f", "a", "c", "e", " ", "M", "e", "t", "r", "i", "c" >>,
               kind |-> "other", ip |-> NoIP],
      Blank |-> [text |-> << >>,
              kind |-> "other", ip |-> NoIP],
      Row192 |-> [text |-> << " ", " ", "0", ".", "0", ".", "0", ".", "0", " ", " ", "0", ".", "0", ".", "0", ".", "0", " ", " ", "1", "9", "2", ".", "1", "6", "8", ".", "1", ".", "1", " ", " ", "1", "9", "2", ".", "1", "6", "8", ".", "1", ".", "1", "0", "0", " ", " ", "2", "5" >>,
               kind |-> "row", ip |-> << 192, 168, 1, 1 >>],
      Row10 |-> [text |-> << "0", ".", "0", ".", "0", ".", "0", " ", "0", ".", "0", ".", "0", ".", "0", " ", "1", "0", ".", "0", ".", "0", ".", "1", " ", "1", "0", ".", "0", ".", "0", ".", "5", "0", " ", "3", "5" >>,
              kind |-> "row", ip |-> << 10, 0, 0, 1 >>],
      OnLink |-> [text |-> << "0", ".", "0", ".", "0", ".", "0", " ", "0", ".", "0", ".", "0", ".", "0", " ", "O", "n", "-", "l", "i", "n", "k", " ", "1", "9", "2", ".", "1", "6", "8", ".", "1", ".", "1", "0", "0", " ", "2", "8", "1" >>,
               kind |-> "other", ip |-> NoIP],
      Loopback |-> [text |-> << "1", "2", "7", ".", "0", ".", "0", ".", "0", " ", "2", "5", "5", ".", "0", ".", "0", ".", "0", " ", "O", "n", "-", "l", "i", "n", "k", " ", "1", "2", "7", ".", "0", ".", "0", ".", "1", " ", "3", "3", "1" >>,
                 kind |-> "other", ip |-> NoIP],
      Masked |-> [text |-> << "0", ".", "0", ".", "0", ".", "0", " ", "2", "5", "5", ".", "0", ".", "0", ".", "0", " ", "1", "0", ".", "0", ".", "0", ".", "1", " ", "1", "0", ".", "0", ".", "0", ".", "5", "0", " ", "3", "5" >>,
               kind |-> "other", ip |-> NoIP],
      V6Gateway |-> [text |-> << "0", ".", "0", ".", "0", ".", "0", " ", "0", ".", "0", ".", "0", ".", "0", " ", "f", "e", "8", "0", ":", ":", "1", " ", "1", "0", ".", "0", ".", "0", ".", "5", "0", " ", "3", "5" >>,
                  kind |-> "other", ip |-> NoIP],
      ThreeFields |-> [text |-> << "0", ".", "0", ".", "0", ".", "0", " ", "0", ".", "0", ".", "0", ".", "0", " ", "1", "9", "2", ".", "1", "6", "8", ".", "1", ".", "1" >>,
                    kind |-> "short", ip |-> << 192, 168, 1, 1 >>] ]

\* strings.HasPrefix, strings.Contains and strings.Fields (fields are
\* separated by spaces).
HasPrefix(s, prefix) ==
    Len(s) >= Len(prefix) /\ SubSeq(s, 1, Len(prefix)) = prefix

ContainsText(s, sub) ==
    \E i \in 1..(Len(s) - Len(sub) + 1) : SubSeq(s, i, i + Len(sub) - 1) = sub

RECURSIVE Fields(_)
Fields(s) ==
    IF Len(s) = 0 THEN << >>
    ELSE IF s[1] = " " THEN Fields(Tail(s))
    ELSE LET n == IF Contains(s, " ") THEN Index(s, " ") ELSE Len(s)
         IN  << SubSeq(s, 1, n) >> \o Fields(SubSeq(s, n + 1, Len(s)))

RECURSIVE ScanWindowsNoStop(_, _, _)
\* The scan loop without the stop at the section delimiter.
ScanWindowsNoStop(lines, i, inActiveRoutes) ==
    IF i > Len(lines) THEN NotFound
    ELSE LET line == lines[i]
             fields == Fields(line)
         IN  IF ContainsText(line, WindowsLines.ActiveRoutes.text)
             THEN ScanWindowsNoStop(lines, i + 1, TRUE)
             ELSE IF ~inActiveRoutes THEN ScanWindowsNoStop(lines, i + 1, inActiveRoutes)
             ELSE IF Len(fields) < 4 THEN ScanWindowsNoStop(lines, i + 1, inActiveRoutes)
             ELSE IF fields[1] = << "N", "e", "t", "w", "o", "r", "k" >>
                  THEN ScanWindowsNoStop(lines, i + 1, inActiveRoutes)
             ELSE IF /\ fields[1] = NetstatText.Dest0000
                     /\ fields[2] = NetstatText.Dest0000
                     /\ fields[3] # << "O", "n", "-", "l", "i", "n", "k" >>
                     /\ ParseIP(fields[3]) # NoIP
                  THEN Found(ParseIP(fields[3]))
             ELSE ScanWindowsNoStop(lines, i + 1, inActiveRoutes)

RECURSIVE ScanWindows(_, _, _)
\* The loop of parseWindowsRouteOutput from line i on.
ScanWindows(lines, i, inActiveRoutes) ==
    IF i > Len(lines) THEN NotFound
    ELSE LET line == lines[i]
             fields == Fields(line)
         IN  IF ContainsText(line, WindowsLines.ActiveRoutes.text)
             THEN ScanWindows(lines, i + 1, TRUE)
             ELSE IF inActiveRoutes /\ HasPrefix(line, << "=", "=", "=", "=" >>) THEN NotFound
             ELSE IF ~inActiveRoutes THEN ScanWindows(lines, i + 1, inActiveRoutes)
             ELSE IF Len(fields) < 4 THEN ScanWindows(lines, i + 1, inActiveRoutes)
             ELSE IF fields[1] = << "N", "e", "t", "w", "o", "r", "k" >>
                  THEN ScanWindows(lines, i + 1, inActiveRoutes)
             ELSE IF /\ fields[1] = NetstatText.Dest0000
                     /\ fields[2] = NetstatText.Dest0000
                     /\ fields[3] # << "O", "n", "-", "l", "i", "n", "k" >>
                     /\ ParseIP(fields[3]) # NoIP
                  THEN Found(ParseIP(fields[3]))
             ELSE ScanWindows(lines, i + 1, inActiveRoutes)

parseWindowsRouteOutput(lines) == ScanWindows(lines, 1, FALSE)

MaxLines == 3

\* The outputs: every sequence of up to MaxLines lines, the output of
\* TestParseWindowsRouteOutput "Standard Windows route output", and outputs
\* with default rows before the section and after its delimiter.
WindowsOutputs ==
    LET L == WindowsLines
        All == { L[n] : n \in DOMAIN L }
    IN  UNION { [1..n -> All] : n \in 0..MaxLines }
        \cup { << L.Delimiter, L.Title, L.Delimiter, L.ActiveRoutes, L.Header,
                  L.Row192, L.Loopback, L.Delimiter >>,
               << L.Row10, L.Delimiter, L.ActiveRoutes, L.Header, L.OnLink,
                  L.Row192, L.Delimiter, L.Row10 >>,
               << L.Row10, L.ActiveRoutes, L.Header, L.OnLink, L.Delimiter, L.Row10 >> }

\* A call parseWindowsRouteOutput(output) to make.
InitWindows ==
    /\ NoProgramState
    /\ \E output \in WindowsOutputs :
         call = [fn |-> "parseWindowsRouteOutput", pc |-> "call",
                 lines |-> [i \in 1..Len(output) |-> output[i].text],
                 kinds |-> [i \in 1..Len(output) |-> output[i].kind],
                 ips |-> [i \in 1..Len(output) |-> output[i].ip],
                 result |-> Failed("none")]

CallParseWindowsRouteOutput ==
    /\ call.fn = "parseWindowsRouteOutput"
    /\ call.pc = "call"
    /\ call' = [call EXCEPT !.pc = "done", !.result = parseWindowsRouteOutput(call.lines)]
    /\ FunctionOnly
    /\ UNCHANGED << mappings >>

SpecWindows == InitWindows /\ [][CallParseWindowsRouteOutput]_vars

\* ------------------------------------------------------ gateway discovery

\* net.Dial("udp", "8.8.8.8:80"): an error, or a socket with a local IPv4
\* address.
DialOutcomes ==
    { [err |-> "unreachable", local |-> NoIP],
      [err |-> "nil", local |-> << 192, 168, 1, 100 >>],
      [err |-> "nil", local |-> << 10, 0, 0, 1 >>],
      [err |-> "nil", local |-> << 172, 16, 5, 254 >>] }

\* discoverGatewayFallback: the local address of the socket with 1 as its
\* last byte.
discoverGatewayFallback(dial) ==
    IF dial.err # "nil" THEN Failed("failedToDetermineLocalIP")
    ELSE Found(<< dial.local[1], dial.local[2], dial.local[3], 1 >>)

\* discoverGateway returning the reader's error to the caller.
discoverGatewayPropagatesError(reader, dial) ==
    IF reader.err # "nil" THEN reader
    ELSE IF reader.gateway # NoIP THEN Found(reader.gateway)
    ELSE discoverGatewayFallback(dial)

\* discoverGateway over what readDefaultGateway returned and the outcome of
\* the fallback's Dial.
discoverGateway(reader, dial) ==
    IF reader.err = "nil" /\ reader.gateway # NoIP THEN Found(reader.gateway)
    ELSE discoverGatewayFallback(dial)

\* A call discoverGateway() to make, on Linux (over a route table of up to
\* two records) or on a platform whose reader is the stub.
InitDiscover ==
    /\ NoProgramState
    /\ \E platform \in { "linux", "other" }, open \in OpenOutcomes,
          header \in HeaderLines \cup { << >> },
          records \in UNION { [1..n -> RouteRecords] : n \in 0..2 },
          readErr \in BOOLEAN, dial \in DialOutcomes :
         /\ (platform # "linux" \/ open # "ok") => (header = << >> /\ ~readErr)
         /\ platform # "linux" => open = "notExist"
         /\ header = << >> => records = << >>
         /\ call = [fn |-> "discoverGateway", pc |-> "call", platform |-> platform,
                    open |-> open,
                    lines |-> IF header = << >> THEN << >>
                              ELSE << header >> \o [i \in 1..Len(records) |-> records[i].fields],
                    readErr |-> readErr, dial |-> dial,
                    reader |-> Failed("none"), result |-> Failed("none")]

\* discoverGateway(): the platform's readDefaultGateway, then the choice.
CallDiscoverGateway ==
    /\ call.fn = "discoverGateway"
    /\ call.pc = "call"
    /\ LET reader == IF call.platform = "linux"
                     THEN readDefaultGateway(call.open, call.lines, call.readErr)
                     ELSE NotFound
       IN  call' = [call EXCEPT !.pc = "done", !.reader = reader,
                                !.result = discoverGateway(reader, call.dial)]
    /\ FunctionOnly
    /\ UNCHANGED << mappings >>

SpecDiscover == InitDiscover /\ [][CallDiscoverGateway]_vars

\* ------------------------------------------------------- NAT-PMP gateway

\* natpmp.Client.AddPortMapping(protocol, internalPort, requestedExternalPort,
\* lifetime) against the gateway's table of mappings [protocol, internalPort,
\* externalPort]: the gateway keeps one mapping per protocol and internal
\* port; with a lifetime above 0 it makes or renews that mapping with the
\* external port it assigns, with lifetime 0 it deletes the mapping of
\* that internal port, and succeeds when there is none.
AddPortMapping(table, proto, internalPort, requestedExternalPort, lifetime, assigned, ok) ==
    LET others == { m \in table : ~(m.protocol = proto /\ m.internalPort = internalPort) }
    IN  IF ~ok THEN [err |-> "deviceError", port |-> 0, table |-> table]
        ELSE IF lifetime = 0 THEN [err |-> "nil", port |-> 0, table |-> others]
        ELSE [err |-> "nil", port |-> assigned,
              table |-> others \cup { [protocol |-> proto, internalPort |-> internalPort,
                                        externalPort |-> assigned] }]

\* A NATPMPMapper and a MapPort call to make; the gateway may hold the
\* mappings of other hosts' ports.
InitNATPMP ==
    /\ NoProgramState
    /\ \E proto \in { "TCP", "UDP" }, port \in { 1, InternalPort, 65535 },
          table \in SUBSET { [protocol |-> "TCP", internalPort |-> ChangedPort,
                              externalPort |-> ChangedPort + 1],
                             [protocol |-> "UDP", internalPort |-> InternalPort,
                              externalPort |-> InternalPort] } :
         /\ \A m \in table : ~(m.protocol = proto /\ m.internalPort = port)
         /\ call = [fn |-> "NATPMPMapper", pc |-> "map", protocol |-> proto,
                    internalPort |-> port, before |-> table, table |-> table,
                    err |-> "none", externalPort |-> 0, unmapErr |-> "none"]

\* NATPMPMapper.MapPort(protocol, internalPort, mappingDuration): the checks
\* pass (the port is in range and the protocol is TCP or UDP); the client
\* asks for the internal port as external port and the gateway assigns that
\* port or another; result.MappedExternalPort is returned.
NATPMPMapPort ==
    /\ call.fn = "NATPMPMapper"
    /\ call.pc = "map"
    /\ \E assigned \in { call.internalPort, ChangedPort }, ok \in BOOLEAN :
         LET res == AddPortMapping(call.table, call.protocol, call.internalPort,
                                   call.internalPort, mappingDuration * 60, assigned, ok)
         IN  call' = [call EXCEPT !.pc = IF res.err = "nil" THEN "mapped" ELSE "failed",
                                  !.err = res.err, !.externalPort = res.port,
                                  !.table = res.table]
    /\ FunctionOnly
    /\ UNCHANGED << mappings >>

\* NATPMPMapper.UnmapPort(protocol, externalPort) with the port MapPort
\* returned, as the Renewal Manager's Stop calls it with r.externalPort:
\* n.client.AddPortMapping(protocolStr, externalPort, 0, 0).
NATPMPUnmapPort ==
    /\ call.fn = "NATPMPMapper"
    /\ call.pc = "mapped"
    /\ \E ok \in BOOLEAN :
         LET res == AddPortMapping(call.table, call.protocol, call.externalPort, 0, 0, 0, ok)
         IN  call' = [call EXCEPT !.pc = "unmapped", !.unmapErr = res.err,
                                  !.table = res.table]
    /\ FunctionOnly
    /\ UNCHANGED << mappings >>

SpecNATPMP == InitNATPMP /\ [][NATPMPMapPort \/ NATPMPUnmapPort]_vars

\* ------------------------------------------------------ acquisition phase

\* The services NewUPnPMapperContext tries, in order.
UPnPServices == << "WANIPConnection2", "WANIPConnection1", "WANPPPConnection1" >>

Entries == {"NewPortMapperContext", "ListenContext", "ListenPacketContext"}

KindOfEntry(e) == IF e = "ListenContext" THEN "stream" ELSE "packet"

\* A call of `entry` about to begin, with the context cancelled or not.
AcqStart(entry, cancelled) ==
    [ pc        |-> IF entry = "NewPortMapperContext" THEN "selector" ELSE "listen",
      entry     |-> entry,
      ctx       |-> cancelled,     \* ctx.Err() # nil
      ctxAtCall |-> cancelled,     \* the same when the call began
      service   |-> 1,             \* index of the UPnP service tried next
      upnp      |-> "untried",     \* NewUPnPMapperContext: untried | ok | failed
      natpmp    |-> "untried",     \* NewNATPMPMapper: untried | ok | failed
      attempts  |-> << >>,         \* discoveries attempted, in order
      mapper    |-> "none",        \* the capability returned: none | upnp | natpmp
      mapped    |-> FALSE,         \* the constructor's MapPort succeeded
      extPort   |-> 0,             \* the external port it returned
      bound     |-> FALSE,         \* net.Listen / net.ListenPacket succeeded
      result    |-> "none",        \* none | ok | the error returned
      port      |-> InternalPort,  \* the port argument
      boundPort |-> 0,             \* the port the socket is bound to
      fb        |-> "off",         \* position of the WithFallback wrapper, if any
      fbResult  |-> "none" ]       \* what the wrapper returned

AcqAt(pc) == acq.pc = pc

\* ctx.Err() != nil, as every check of the selector, of UPnP discovery and of
\* the constructors reads it: a cancelled context stays cancelled.
CtxErrNil == FALSE

CtxErr == acq.ctx

AcqDone(result) == [acq EXCEPT !.pc = "done", !.result = result]

\* What is left alone by a step that touches neither the capability, nor the
\* socket, nor the manager.
AcqOnly == UNCHANGED << rmVars, capVars, lstVars, caller, hist >>

\* The caller cancels the context (or its deadline passes) while the call runs.
Cancel ==
    /\ \/ acq.pc \notin {"off", "wait", "done"}
       \/ acq.fb \notin {"off", "done"}
    /\ ~acq.ctx
    /\ acq' = [acq EXCEPT !.ctx = TRUE]
    /\ AcqOnly
    /\ UNCHANGED << now, expiresAt, call >>

\* ListenContext / ListenPacketContext: if err := ctx.Err(); err != nil { return
\* nil, "context cancelled before starting" }; then createTCPMappingContext /
\* createUDPMappingContext, which begins with NewPortMapperContext(ctx).
ListenEntry ==
    /\ AcqAt("listen")
    /\ acq' = IF CtxErr THEN AcqDone("errCancelled") ELSE [acq EXCEPT !.pc = "selector"]
    /\ AcqOnly
    /\ UNCHANGED << now, expiresAt, call >>

\* NewPortMapperContext returns (mapper, err): to its caller when it was
\* called directly; into create{TCP,UDP}MappingContext otherwise, which
\* returns the error or goes on to MapPort.
SelectorReturn(a, mapper, err) ==
    IF a.entry = "NewPortMapperContext" \/ err # "none"
    THEN [a EXCEPT !.pc = "done", !.mapper = mapper,
                   !.result = IF err = "none" THEN "ok" ELSE err]
    ELSE [a EXCEPT !.pc = "mapport", !.mapper = mapper]

\* NewPortMapperContext: the check before starting, then NewUPnPMapperContext.
SelectorEntry ==
    /\ AcqAt("selector")
    /\ acq' = IF CtxErr
              THEN SelectorReturn(acq, "none", "errCancelled")
              ELSE [acq EXCEPT !.pc = "upnp_check"]
    /\ AcqOnly
    /\ UNCHANGED << now, expiresAt, call >>

\* NewUPnPMapperContext: the context check before each discovery attempt; a
\* cancelled context makes it return an error.
UPnPCheck ==
    /\ AcqAt("upnp_check")
    /\ acq' = IF CtxErr
              THEN [acq EXCEPT !.pc = "after_upnp", !.upnp = "failed"]
              ELSE [acq EXCEPT !.pc = "upnp_discover"]
    /\ AcqOnly
    /\ UNCHANGED << now, expiresAt, call >>

\* NewUPnPMapperContext: one discovery attempt. A service that answers makes
\* it return the mapper, and with it NewPortMapperContext (if err == nil {
\* return upnp, nil }); after the last service it returns "no UPnP IGD
\* devices found".
UPnPDiscoverThenNATPMP ==
    /\ AcqAt("upnp_discover")
    /\ \E found \in BOOLEAN :
         acq' = [acq EXCEPT !.pc = "natpmp",
                            !.upnp = IF found THEN "ok" ELSE "failed",
                            !.attempts = Append(@, UPnPServices[acq.service])]
    /\ AcqOnly
    /\ UNCHANGED << now, expiresAt, call >>

UPnPDiscover ==
    /\ AcqAt("upnp_discover")
    /\ \E found \in BOOLEAN :
         LET a == [acq EXCEPT !.attempts = Append(@, UPnPServices[acq.service])]
         IN  acq' = IF found
                    THEN SelectorReturn([a EXCEPT !.upnp = "ok"], "upnp", "none")
                    ELSE IF acq.service < Len(UPnPServices)
                         THEN [a EXCEPT !.pc = "upnp_check", !.service = @ + 1]
                         ELSE [a EXCEPT !.pc = "after_upnp", !.upnp = "failed"]
    /\ AcqOnly
    /\ UNCHANGED << now, expiresAt, call >>

\* NewPortMapperContext after UPnP failed: the check before fallback.
SelectorAfterUPnP ==
    /\ AcqAt("after_upnp")
    /\ acq' = IF CtxErr
              THEN SelectorReturn(acq, "none", "errCancelled")
              ELSE [acq EXCEPT !.pc = "natpmp"]
    /\ AcqOnly
    /\ UNCHANGED << now, expiresAt, call >>

\* NewPortMapperContext: natpmp, err := NewNATPMPMapper(); an error gives "no
\* NAT traversal available: UPnP failed, NAT-PMP failed". The context is not
\* consulted again.
NATPMPAttempt ==
    /\ AcqAt("natpmp")
    /\ \E found \in BOOLEAN :
         LET a == [acq EXCEPT !.attempts = Append(@, "NAT-PMP"),
                              !.natpmp = IF found THEN "ok" ELSE "failed"]
         IN  acq' = IF found
                    THEN SelectorReturn(a, "natpmp", "none")
                    ELSE SelectorReturn(a, "none", "errNoNATTraversal")
    /\ AcqOnly
    /\ UNCHANGED << now, expiresAt, call >>

\* create{TCP,UDP}MappingContext after the selector: externalPort, err :=
\* mapper.MapPort(protocol, port, mappingDuration). UPnP answers with the
\* internal port, NAT-PMP with the port the gateway assigned.
CreateMapping ==
    /\ AcqAt("mapport")
    /\ \E ok \in BOOLEAN, p \in ExtPorts :
         /\ acq.mapper = "upnp" => p = InternalPort
         /\ IF ok
            THEN /\ mappings' = MockMapPort(protocol, p)
                 /\ expiresAt' = MockExpiresAt(p)
                 /\ acq' = [acq EXCEPT !.pc = "after_mapping", !.mapped = TRUE, !.extPort = p]
                 /\ UNCHANGED capFailed
            ELSE /\ p = InternalPort
                 /\ capFailed' = TRUE
                 /\ acq' = AcqDone("errMapPort")
                 /\ UNCHANGED << mappings, expiresAt >>
    /\ UNCHANGED << rmVars, unmaps, lstVars, caller, hist >>
    /\ UNCHANGED << now, call >>

\* mapper.UnmapPort(protocol, externalPort) on an error path of a constructor;
\* its error is dropped.
ListenUnmap ==
    \E ok \in BOOLEAN :
        /\ unmaps' = Append(unmaps, [protocol |-> protocol, port |-> acq.extPort,
                                     recorded |-> acq.extPort])
        /\ mappings' = IF ok THEN MockUnmapPort(protocol, acq.extPort) ELSE mappings
        /\ capFailed' = (capFailed \/ ~ok)

\* The constructor's check after mapping: a cancelled context unmaps and
\* returns "context cancelled after mapping".
ListenAfterMapping ==
    /\ AcqAt("after_mapping")
    /\ IF CtxErr
       THEN /\ ListenUnmap
            /\ acq' = AcqDone("errCancelled")
       ELSE /\ acq' = [acq EXCEPT !.pc = "bind"]
            /\ UNCHANGED capVars
    /\ UNCHANGED << rmVars, lstVars, caller, hist >>
    /\ UNCHANGED << now, expiresAt, call >>

\* The ports the OS can bind for ":port": the port itself, or any free port
\* when it is 0.
BoundPorts(port) == IF port = 0 THEN ExtPorts ELSE {port}

\* net.Listen("tcp", ":port") / net.ListenPacket("udp", ":port"); a failure
\* unmaps and returns the error.
ListenBind ==
    /\ AcqAt("bind")
    /\ \E ok \in BOOLEAN :
         IF ok
         THEN /\ \E p \in BoundPorts(acq.port) :
                   acq' = [acq EXCEPT !.pc = "after_bind", !.bound = TRUE, !.boundPort = p]
              /\ UNCHANGED capVars
         ELSE /\ ListenUnmap
              /\ acq' = AcqDone("errListen")
    /\ UNCHANGED << rmVars, lstVars, caller, hist >>
    /\ UNCHANGED << now, expiresAt, call >>

\* The check after binding: a cancelled context closes the socket, unmaps and
\* returns "context cancelled after listener creation".
ListenAfterBind ==
    /\ AcqAt("after_bind")
    /\ IF CtxErr
       THEN /\ SockClose
            /\ ListenUnmap
            /\ acq' = AcqDone("errCancelled")
       ELSE /\ acq' = [acq EXCEPT !.pc = "external_ip"]
            /\ UNCHANGED << capVars, sockClosed, sockCloses >>
    /\ UNCHANGED << rmVars, kind, renewal, fallback, closed, lExternalPort, addr, addrs, lmu, cached, localAddr,
                    onceDone, closeErr, caller, hist >>
    /\ UNCHANGED << now, expiresAt, call >>

\* externalIP, err := mapper.GetExternalIP(): a failure closes the socket,
\* unmaps and returns the error. Otherwise the constructor builds the NATAddr,
\* the Renewal Manager and the listener, registers updateExternalPort as the
\* callback, starts the manager and returns the listener.
ListenExternalIPLeaky ==
    /\ AcqAt("external_ip")
    /\ SockClose
    /\ capFailed' = TRUE
    /\ acq' = AcqDone("errExternalIP")
    /\ UNCHANGED << mappings, unmaps >>
    /\ UNCHANGED << rmVars, kind, renewal, fallback, closed, lExternalPort, addr, addrs, lmu, cached, localAddr,
                    onceDone, closeErr, caller, hist >>
    /\ UNCHANGED << now, expiresAt, call >>

ListenExternalIP ==
    /\ AcqAt("external_ip")
    /\ \E ok \in BOOLEAN :
         IF ok
         THEN /\ acq' = AcqDone("ok")
              /\ lExternalPort' = acq.extPort
              /\ addr' = NewNATAddr(NetworkOf(kind), Endpoint("0.0.0.0", acq.boundPort),
                                    Endpoint(ExternalIP, acq.extPort))
              /\ localAddr' = addr'
              /\ addrs' = << addr' >>
              /\ rExternalPort' = acq.extPort
              /\ onPortChange' = TRUE
              /\ started' = TRUE
              /\ cycle' = cycle + 1
              /\ loop' = [loop EXCEPT ![cycle + 1] = [NoLoop EXCEPT !.pc = "select"]]
              /\ hist' = [hist EXCEPT !.recorded = acq.extPort]
              /\ UNCHANGED << capVars, sockClosed, sockCloses >>
         ELSE /\ SockClose
              /\ ListenUnmap
              /\ acq' = AcqDone("errExternalIP")
              /\ UNCHANGED << lExternalPort, addr, addrs, localAddr, rExternalPort, onPortChange,
                              started, cycle, loop, hist >>
    /\ UNCHANGED << protocol, rmu, doneClosed, tickerStopped, tickC, ticks,
                    kind, renewal, fallback, closed, lmu, cached, onceDone, closeErr, caller >>
    /\ UNCHANGED << now, expiresAt, call >>

\* One call of a constructor or of the selector, nothing mapped or bound yet.
InitListen ==
    /\ \E e \in Entries, cancelled \in BOOLEAN :
         /\ acq = AcqStart(e, cancelled)
         /\ InitListener(KindOfEntry(e))
         /\ InitManager(KindOfEntry(e))
    /\ onPortChange = FALSE
    /\ mappings = {}
    /\ now = 0
    /\ expiresAt = NoLease
    /\ call = NoCall
    /\ unmaps = << >>
    /\ capFailed = FALSE
    /\ caller = [c \in Callers |-> IdleCaller]
    /\ hist = InitHist

NextListen ==
    \/ Cancel
    \/ ListenEntry
    \/ SelectorEntry
    \/ UPnPCheck
    \/ UPnPDiscover
    \/ SelectorAfterUPnP
    \/ NATPMPAttempt
    \/ CreateMapping
    \/ ListenAfterMapping
    \/ ListenBind
    \/ ListenAfterBind
    \/ ListenExternalIP

SpecListen == InitListen /\ [][NextListen]_vars


\* ------------------------------------------------- fallback constructors

\* The port arguments tried: a fixed port and 0 (the OS chooses).
RequestedPorts == {0, InternalPort}

FallbackEntries == {"ListenWithFallbackContext", "ListenPacketWithFallbackContext"}

\* The constructor a fallback constructor tries first.
InnerEntry(e) == IF e = "ListenWithFallbackContext" THEN "ListenContext"
                                                    ELSE "ListenPacketContext"

\* The wrapper returns.
FallbackDone(result) == [acq EXCEPT !.fb = "done", !.fbResult = result]

\* ListenWithFallbackContext / ListenPacketWithFallbackContext: the check
\* before starting, then ListenContext / ListenPacketContext.
FallbackEntry ==
    /\ acq.fb = "entry"
    /\ acq' = IF CtxErr
              THEN FallbackDone("errCancelled")
              ELSE [acq EXCEPT !.fb = "nat", !.pc = "listen"]
    /\ AcqOnly
    /\ UNCHANGED << now, expiresAt, call >>

\* The NAT constructor has returned: its listener is returned as it is; after
\* an error, the check before fallback.
FallbackAfterNATNoCheck ==
    /\ acq.fb = "nat"
    /\ acq.pc = "done"
    /\ acq' = IF acq.result = "ok"
              THEN FallbackDone("ok")
              ELSE [acq EXCEPT !.fb = "bind"]
    /\ AcqOnly
    /\ UNCHANGED << now, expiresAt, call >>

FallbackAfterNAT ==
    /\ acq.fb = "nat"
    /\ acq.pc = "done"
    /\ acq' = IF acq.result = "ok"
              THEN FallbackDone("ok")
              ELSE IF CtxErr
                   THEN FallbackDone("errCancelled")
                   ELSE [acq EXCEPT !.fb = "bind"]
    /\ AcqOnly
    /\ UNCHANGED << now, expiresAt, call >>

\* The fallback itself: net.Listen / net.ListenPacket on ":port"; a failure is
\* returned. Otherwise internalAddr is the bound address, the NATAddr has it
\* as both endpoints, and the listener returned has renewal nil, externalPort
\* the port argument, and fallback true.
FallbackBindSameIP ==
    /\ acq.fb = "bind"
    /\ \E p \in BoundPorts(acq.port) :
         /\ acq' = [FallbackDone("fallback") EXCEPT !.boundPort = p]
         /\ addr' = NewNATAddr(NetworkOf(kind), Endpoint("0.0.0.0", p),
                               Endpoint(ExternalIP, p))
    /\ renewal' = "nil"
    /\ fallback' = TRUE
    /\ lExternalPort' = acq.port
    /\ localAddr' = addr'
    /\ addrs' = << addr' >>
    /\ sockClosed' = FALSE
    /\ sockCloses' = 0
    /\ UNCHANGED << rmVars, capVars, kind, closed, lmu, cached, onceDone, closeErr,
                    caller, hist >>
    /\ UNCHANGED << now, expiresAt, call >>

FallbackBind ==
    /\ acq.fb = "bind"
    /\ \E ok \in BOOLEAN :
         IF ok
         THEN /\ \E p \in BoundPorts(acq.port) :
                   /\ acq' = [FallbackDone("fallback") EXCEPT !.boundPort = p]
                   /\ addr' = NewNATAddr(NetworkOf(kind), Endpoint("0.0.0.0", p),
                                         Endpoint("0.0.0.0", p))
              /\ renewal' = "nil"
              /\ fallback' = TRUE
              /\ lExternalPort' = acq.port
              /\ localAddr' = addr'
              /\ addrs' = << addr' >>
              /\ sockClosed' = FALSE
              /\ sockCloses' = 0
         ELSE /\ acq' = FallbackDone("errListen")
              /\ UNCHANGED << renewal, fallback, lExternalPort, addr, addrs, localAddr,
                              sockClosed, sockCloses >>
    /\ UNCHANGED << rmVars, capVars, kind, closed, lmu, cached, onceDone, closeErr,
                    caller, hist >>
    /\ UNCHANGED << now, expiresAt, call >>

\* The wrapper has returned a fallback listener.
FallbackReturned == acq.fb = "done" /\ acq.fbResult = "fallback"

\* One call of a fallback constructor.
InitFallback ==
    /\ \E e \in FallbackEntries, cancelled \in BOOLEAN, port \in RequestedPorts :
         /\ acq = [AcqStart(InnerEntry(e), cancelled)
                     EXCEPT !.pc = "wait", !.fb = "entry", !.port = port]
         /\ InitListener(KindOfEntry(InnerEntry(e)))
         /\ InitManager(KindOfEntry(InnerEntry(e)))
    /\ onPortChange = FALSE
    /\ mappings = {}
    /\ now = 0
    /\ expiresAt = NoLease
    /\ call = NoCall
    /\ unmaps = << >>
    /\ capFailed = FALSE
    /\ caller = [c \in Callers |-> IdleCaller]
    /\ hist = InitHist

\* The call, then the fallback listener's Close and queries. A listener with
\* NAT traversal returned through the wrapper is the listener of Spec.
NextFallback ==
    \/ FallbackEntry
    \/ NextListen
    \/ FallbackAfterNAT
    \/ FallbackBind
    \/ /\ FallbackReturned
       /\ \E c \in Callers :
            \/ CloseEnter(c)
            \/ CloseStop(c)
            \/ ExternalPort(c)
            \/ Addr(c)

SpecFallback == InitFallback /\ [][NextFallback]_vars


\* ------------------------------------------------------------------ claims

ClosedBy(c) == Idle(c) /\ caller[c].op \in {"Close", "WrapperClose"}

\* C1: for a packet listener, over every interleaving of Close calls on the
\* listener and on a wrapper returned by Accept() or PacketConn() (obtained
\* before or after the listener's Close), the underlying socket's Close is
\* invoked exactly once, and every Close call after the first returns nil.
C1_SocketClosedOnce ==
    kind = "packet" =>
        /\ sockCloses <= 1
        /\ hist.closeReturned => sockCloses = 1
        /\ \A c \in Callers : (ClosedBy(c) /\ caller[c].late) => caller[c].ret = "nil"

\* C2: for any number of sequential or concurrent Close calls on a NAT
\* listener (stream or packet) whose renewal manager is running, including
\* calls that overlap a renewal step, UnmapPort is invoked at most once in
\* total and the Close calls close the underlying socket exactly once: they
\* invoke the socket's Close at most once, and once a Close has returned the
\* socket is closed, by exactly one invocation unless a caller also closed the
\* wrapper itself.
C2_CloseUnmapsAndClosesOnce ==
    /\ Len(unmaps) <= 1
    /\ hist.lSockCloses <= 1
    /\ hist.lCloseReturned =>
          /\ sockClosed
          /\ Len(unmaps) = 1
          /\ ~hist.wCloseCalled => sockCloses = 1

\* Two Close calls have returned, the second having begun after the first
\* returned, while the loop is inside a renew step.
C2_Witness ==
    /\ \A c \in Callers : Idle(c) /\ caller[c].op = "Close"
    /\ \E c \in Callers : caller[c].late
    /\ loop[1].pc \in {"commit", "cb"}
    /\ Len(unmaps) = 1

\* C3: on each Running-to-Stopped transition of a Renewal Manager (each closes
\* the done channel of its cycle) UnmapPort is called exactly once, with the
\* manager's protocol and the external port most recently recorded; further
\* Stop calls without an intervening Start call UnmapPort zero times.
C3_OneUnmapPerStop ==
    /\ Len(unmaps) + Cardinality({c \in Callers : caller[c].pc = "unmap"})
          = Cardinality(doneClosed)
    /\ \A i \in 1..Len(unmaps) :
          /\ unmaps[i].protocol = protocol
          /\ unmaps[i].port = unmaps[i].recorded

\* Two transitions, the second after a renewal changed the port, and a Stop
\* that found the manager stopped.
C3_Witness ==
    /\ Len(unmaps) = 2
    /\ unmaps[2].port = ChangedPort
    /\ ~started
    /\ \E c \in Callers : Idle(c) /\ caller[c].op = "Stop" /\ caller[c].ret = "noop"

\* C4: once Stop has returned on a running Renewal Manager whose capability
\* calls never fail, the capability holds no mapping for the manager's
\* protocol and port, and none reappears: no MapPort call of the manager
\* takes effect after the unmap.
C4_NoMappingAfterStop ==
    (hist.stopReturned /\ ~started /\ ~capFailed) =>
        MappingKey(protocol, rExternalPort) \notin mappings

NoCallbackPending == \A k \in Cycles : loop[k].pc # "cb"

\* C5: for every successful renew step, if the port MapPort returned differs
\* from the recorded one the callback is invoked exactly once with the new
\* port, the manager's ExternalPort() is already the new port when it runs,
\* and once it has returned the listener's ExternalPort() and Addr() report
\* the new port; if the port is the same the callback is not invoked and the
\* recorded port is unchanged.
C5_PortChangeCallback ==
    LET r == hist.lastRenew
    IN  /\ (r.ok /\ r.new # r.old) => (r.cbs = << r.new >> /\ r.rAtCb = r.new)
        /\ (r.ok /\ r.new = r.old) => (r.cbs = << >> /\ r.rAfter = r.old)
        /\ NoCallbackPending =>
              /\ ListenerExternalPort = rExternalPort
              /\ ListenerAddr.externalAddr = Endpoint(ExternalIP, rExternalPort)

\* A renewal changed the port and a query made afterwards returned it.
C5_Witness ==
    /\ hist.lastRenew.ok
    /\ hist.lastRenew.old = InternalPort
    /\ hist.lastRenew.new = ChangedPort
    /\ NoCallbackPending
    /\ \E c \in Callers : Idle(c) /\ caller[c].op = "Addr" /\ caller[c].val = ChangedPort

\* C6: in every reachable state of a packet listener, the cached wrapper, if
\* it exists, reports the listener's current NATAddress from LocalAddr(); the
\* address has the external endpoint externalIP:ExternalPort() and the
\* network and internal endpoint it was constructed with.
C6_WrapperReportsCurrentAddr ==
    kind = "packet" =>
        /\ cached => LocalAddr = ListenerAddr
        /\ ListenerAddr = NewNATAddr("udp", Endpoint("0.0.0.0", InternalPort),
                                     Endpoint(ExternalIP, ListenerExternalPort))

\* The wrapper existed when a renewal changed the port.
C6_Witness ==
    /\ kind = "packet"
    /\ cached
    /\ ListenerExternalPort = ChangedPort
    /\ LocalAddr.externalAddr = Endpoint(ExternalIP, ChangedPort)

\* A constructor has returned an error after its MapPort succeeded.
ListenFailedAfterMapping ==
    /\ acq.pc = "done"
    /\ acq.entry \in {"ListenContext", "ListenPacketContext"}
    /\ acq.mapped
    /\ acq.result # "ok"

\* C7: whenever ListenContext or ListenPacketContext returns an error after
\* the mapping was created (context found cancelled after mapping, bind
\* failure, context found cancelled after bind, external-IP failure),
\* UnmapPort has been called exactly once, for the constructor's protocol and
\* the acquired external port, a socket that was bound has been closed, and no
\* renewal manager has been started.
C7_FailureReleasesMapping ==
    ListenFailedAfterMapping =>
        /\ acq.result \in {"errCancelled", "errListen", "errExternalIP"}
        /\ Len(unmaps) = 1
        /\ unmaps[1].protocol = protocol
        /\ unmaps[1].port = acq.extPort
        /\ acq.bound => (sockClosed /\ sockCloses = 1)
        /\ ~started
        /\ cycle = 0
        /\ \A k \in Cycles : loop[k] = NoLoop

\* The external-IP query failed with the socket bound and a gateway-assigned
\* port mapped.
C7_Witness ==
    /\ ListenFailedAfterMapping
    /\ acq.result = "errExternalIP"
    /\ acq.bound
    /\ acq.extPort = ChangedPort
    /\ Len(unmaps) = 1

\* C8: NewPortMapperContext attempts UPnP first; if UPnP succeeds it returns
\* the UPnP capability and NAT-PMP is never attempted; NAT-PMP is attempted
\* only after UPnP has failed; if both fail the selector has returned an error
\* and no capability.
C8_UPnPFirstThenNATPMP ==
    /\ acq.attempts # << >> => acq.attempts[1] = UPnPServices[1]
    /\ acq.natpmp # "untried" =>
          /\ acq.upnp = "failed"
          /\ acq.attempts[Len(acq.attempts)] = "NAT-PMP"
    /\ \A i \in 1..Len(acq.attempts) :
          acq.attempts[i] = "NAT-PMP" => (i = Len(acq.attempts) /\ acq.upnp = "failed")
    /\ acq.upnp = "ok" => (acq.mapper = "upnp" /\ acq.natpmp = "untried")
    /\ (acq.upnp = "failed" /\ acq.natpmp = "failed") =>
          /\ acq.pc = "done"
          /\ acq.mapper = "none"
          /\ acq.result \notin {"ok", "none"}

\* Every UPnP service failed, then NAT-PMP answered and was returned.
C8_Witness ==
    /\ acq.entry = "NewPortMapperContext"
    /\ acq.pc = "done"
    /\ acq.result = "ok"
    /\ acq.mapper = "natpmp"
    /\ acq.attempts = UPnPServices \o << "NAT-PMP" >>

\* C9: if the context is cancelled at any moment before the selector returns
\* and the selector returns no capability, the error returned is the
\* cancellation error, never "no NAT traversal available", also when the
\* cancellation happens while the NAT-PMP attempt runs and that attempt fails.
C9_CancellationTakesPrecedence ==
    (acq.entry = "NewPortMapperContext" /\ acq.pc = "done" /\ acq.ctx /\ acq.mapper = "none")
        => acq.result = "errCancelled"

\* C10: when the context is already cancelled at call time,
\* NewPortMapperContext, ListenContext and ListenPacketContext attempt no
\* discovery, create no mapping and bind no socket, and what they return is
\* the cancellation error and no capability.
C10_CancelledAtCallTime ==
    acq.ctxAtCall =>
        /\ acq.attempts = << >>
        /\ acq.upnp # "ok" /\ acq.natpmp = "untried"
        /\ ~acq.mapped /\ mappings = {} /\ unmaps = << >>
        /\ ~acq.bound /\ ~sockClosed /\ sockCloses = 0
        /\ acq.pc = "done" => (acq.result = "errCancelled" /\ acq.mapper = "none")

\* ListenContext has returned on a context cancelled before the call.
C10_Witness ==
    /\ acq.ctxAtCall
    /\ acq.entry = "ListenContext"
    /\ acq.pc = "done"
    /\ acq.result = "errCancelled"

\* The NAT constructor called by the wrapper has returned an error.
NATAttemptFailed == acq.fb \notin {"off", "entry"} /\ acq.pc = "done" /\ acq.result # "ok"

\* No socket bound by the call is left open.
NoSocketLeft == acq.bound => sockClosed

\* C11 as stated: whenever the NAT construction has failed and the context is
\* not cancelled, the fallback constructors return a fallback listener
\* (IsFallback() true, no renewal manager, NATAddr with identical endpoints);
\* when it succeeds they return that listener, IsFallback() false.
C11_AlwaysFallbackListener ==
    /\ (acq.fb = "done" /\ NATAttemptFailed /\ ~acq.ctx) =>
          /\ acq.fbResult = "fallback"
          /\ fallback
          /\ renewal = "nil"
          /\ ListenerAddr.internalAddr = ListenerAddr.externalAddr
    /\ (acq.fb = "done" /\ acq.pc = "done" /\ acq.result = "ok") =>
          (acq.fbResult = "ok" /\ ~fallback)

\* C11, amended: after a failed NAT construction with the context not
\* cancelled the fallback constructors return either a fallback listener or,
\* when the fallback bind itself fails, that error and no listener. A fallback
\* listener has IsFallback() true (l.fallback), a nil renewal manager (none
\* was created or started) and a NATAddr whose internal and external endpoints
\* are both the bound local address; a successful NAT construction is returned
\* as it is, IsFallback() false, with its manager started.
C11_FallbackOrBindError ==
    /\ (acq.fb = "done" /\ NATAttemptFailed /\ ~acq.ctx) =>
          acq.fbResult \in {"fallback", "errListen"}
    /\ acq.fbResult = "fallback" =>
          /\ NATAttemptFailed
          /\ fallback
          /\ renewal = "nil"
          /\ ~started /\ cycle = 0
          /\ ListenerAddr.internalAddr = ListenerAddr.externalAddr
          /\ ListenerAddr.internalAddr = Endpoint("0.0.0.0", acq.boundPort)
          /\ ListenerAddr.network = NetworkOf(kind)
    /\ acq.fbResult = "errListen" =>
          /\ NATAttemptFailed
          /\ ~fallback
          /\ NoSocketLeft
    /\ (acq.fb = "done" /\ acq.pc = "done" /\ acq.result = "ok") =>
          /\ acq.fbResult = "ok"
          /\ ~fallback
          /\ renewal = "manager"
          /\ started

\* A fallback listener returned for port 0 after no protocol could be
\* negotiated, the context never cancelled.
C11_Witness ==
    /\ FallbackReturned
    /\ acq.result = "errNoNATTraversal"
    /\ acq.port = 0
    /\ ~acq.ctx

\* C12: for every requested port, port 0 included, a fallback listener's
\* ExternalPort() is the port the local socket is bound to, the port of the
\* internal endpoint of its NATAddr.
C12_FallbackPortIsBoundPort ==
    FallbackReturned =>
        /\ ListenerExternalPort = acq.boundPort
        /\ ListenerExternalPort = ListenerAddr.internalAddr[2]

CancelledCleanly ==
    (acq.fb = "done" /\ acq.fbResult = "errCancelled") =>
        /\ ~fallback /\ renewal = "manager" /\ ~started /\ cycle = 0
        /\ NoSocketLeft
        /\ acq.mapped => (Len(unmaps) = 1 /\ unmaps[1].port = acq.extPort)
        /\ ~acq.mapped => (unmaps = << >> /\ mappings = {})
        /\ mappings \subseteq { MappingKey(protocol, acq.extPort) }
        /\ mappings # {} => capFailed

\* A context cancelled before the call: nothing is attempted.
CancelledBeforeFallback ==
    (acq.fb # "off" /\ acq.ctxAtCall) =>
        /\ acq.pc = "wait"
        /\ acq.attempts = << >>
        /\ mappings = {} /\ unmaps = << >>
        /\ ~acq.bound /\ ~fallback
        /\ acq.fb = "done" => acq.fbResult = "errCancelled"

\* The wrapper's step after a failed NAT attempt, the context cancelled.
FoundCancelledAfterNAT ==
    (acq.fb = "nat" /\ NATAttemptFailed /\ acq.ctx) =>
        (acq'.fb = "done" /\ acq'.fbResult = "errCancelled")

C14_FallbackCloseCompletes ==
    FallbackReturned =>
        /\ \A c \in Callers : (Idle(c) /\ caller[c].op = "Close") => caller[c].ret = "nil"
        /\ (\E c \in Callers : Idle(c) /\ caller[c].op = "Close") =>
              (sockClosed /\ sockCloses = 1)
        /\ sockCloses <= 1
        /\ Len(unmaps) <= 1


\* The timers that can still tick and the renewLoop goroutines whose done
\* channel is still open.
LiveTimers == { k \in Cycles : k <= cycle /\ k \notin tickerStopped }
LiveLoops == { k \in Cycles : loop[k].pc \notin {"none", "exited"} /\ k \notin doneClosed }

StartOnRunningIsNoOp ==
    \A c \in Callers :
        (Start(c) /\ started) =>
            /\ UNCHANGED << started, cycle, loop, tickC, doneClosed, tickerStopped >>
            /\ caller'[c].ret = "noop"

\* C15: Start on a Renewal Manager that is already running launches no loop
\* and creates no timer, however many times it is called: during a running
\* period exactly one timer is live and exactly one loop waits on an open
\* done channel, those of the current cycle.
C15_OneLoopAndTimerPerRun ==
    /\ [](started => (LiveTimers = {cycle} /\ LiveLoops = {cycle}))
    /\ [][StartOnRunningIsNoOp]_vars

\* Two callers have called Start: one started the manager, the other found it
\* running.
C15_Witness ==
    /\ started
    /\ cycle = 1
    /\ \E c, d \in Callers :
          /\ Idle(c) /\ caller[c].op = "Start" /\ caller[c].ret = "started"
          /\ Idle(d) /\ caller[d].op = "Start" /\ caller[d].ret = "noop"

StopOnStoppedIsNoOp ==
    \A c \in Callers :
        (Stop(c) /\ ~started) =>
            /\ UNCHANGED << unmaps, mappings, rExternalPort, started, onPortChange >>
            /\ caller'[c].pc = "idle"
            /\ rmu' = Free

\* C16: Stop on a Renewal Manager that is not running, never started or
\* already stopped, returns without going on to UnmapPort and leaves the
\* recorded external port, the started flag and the callback unchanged.
C16_StopWhenNotRunningIsNoOp == [][StopOnStoppedIsNoOp]_vars

\* Stop has returned on a manager that was never started.
C16_Witness ==
    /\ cycle = 0
    /\ unmaps = << >>
    /\ \E c \in Callers : Idle(c) /\ caller[c].op = "Stop" /\ caller[c].ret = "noop"

\* C17, as stated: once Stop has taken the manager from Running to Stopped
\* (a done channel is closed and started is false), no later step makes it
\* run again.
C17_StoppedIsTerminal == [][(doneClosed # {} /\ ~started) => ~started']_vars

StartOnStoppedRestarts ==
    \A c \in Callers :
        (Start(c) /\ ~started) =>
            /\ started'
            /\ cycle' = cycle + 1
            /\ cycle' \notin doneClosed'
            /\ cycle' \notin tickerStopped'
            /\ tickC'[cycle'] = 0
            /\ loop'[cycle'].pc = "select"
            /\ caller'[c].ret = "started"

\* C17, amended: Stopped is not terminal. Start on a manager that is not
\* running, whether never started or stopped, sets started and launches a new
\* loop on a fresh done channel and timer, and that loop runs renew steps;
\* channels closed by earlier Stops stay closed.
C17_StartAfterStopRestarts ==
    /\ [][StartOnStoppedRestarts]_vars
    /\ [][doneClosed \subseteq doneClosed' /\ tickerStopped \subseteq tickerStopped']_vars

\* The manager was stopped and started again, and the loop of the second
\* running period is in a renew step.
C17_Witness ==
    /\ started
    /\ cycle = 2
    /\ 1 \in doneClosed
    /\ loop[2].pc = "map"

MapPortFailureIsSilent ==
    \A k \in Cycles :
        (loop[k].pc = "map" /\ loop'[k] # loop[k] /\ loop'[k].pc # "commit") =>
            /\ loop'[k] = [NoLoop EXCEPT !.pc = "select"]
            /\ hist'.lastRenew.ok = FALSE
            /\ hist'.lastRenew.cbs = << >>
            /\ UNCHANGED << protocol, started, rExternalPort, onPortChange, rmu, cycle, doneClosed,
                            tickerStopped, tickC, ticks, mappings, unmaps, lstVars, caller >>

\* C18: a renew step whose MapPort call fails leaves the recorded external
\* port unchanged, invokes no callback, changes nothing a caller of the
\* listener sees and returns the loop to its select, in the state a loop has
\* before any renew step, so that the next tick renews again.
C18_FailedRenewChangesNothing == [][MapPortFailureIsSilent]_vars

\* A renew step failed and the next one succeeded and reported a changed port
\* to the callback.
C18_Witness ==
    /\ capFailed
    /\ unmaps = << >>
    /\ hist.lastRenew.ok
    /\ hist.lastRenew.cbs = << ChangedPort >>
    /\ lExternalPort = ChangedPort

\* C19: while a port-change callback is executing, r.mu is free or held by
\* another thread, never by the renew step that invokes the callback.
C19_CallbackRunsUnlocked ==
    \A k \in Cycles : loop[k].pc = "cb" => rmu \in {Free} \cup Callers

\* A callback is pending while a caller inside Stop holds r.mu.
C19_Witness ==
    \E k \in Cycles, c \in Callers : loop[k].pc = "cb" /\ rmu = c

\* C20: no thread holds r.mu or l.mu while it is in a call into the
\* capability: the renew step in MapPort, Stop and Close in UnmapPort.
C20_NoLockAcrossCapabilityCall ==
    /\ \A k \in Cycles : loop[k].pc = "map" => rmu \in {Free} \cup Callers
    /\ \A c \in Callers : caller[c].pc = "unmap" => (rmu # c /\ lmu # c)

AcceptAfterCloseFails ==
    \A c \in Callers :
        (Accept(c) /\ hist.lCloseReturned) =>
            /\ caller'[c].pc = "idle"
            /\ caller'[c].ret = "errListenerClosed"
            /\ UNCHANGED << cached, localAddr >>

\* C21: an Accept that begins after a Close of the listener has returned
\* returns an error in its first step, without reaching the socket, and for
\* the packet listener without creating the cached wrapper; no Accept ever
\* returns a connection it began to wait for after Close returned.
C21_AcceptAfterCloseFails == [][AcceptAfterCloseFails]_vars

\* A packet listener was closed before any wrapper existed and an Accept
\* after that returned the error: there is still no wrapper.
C21_Witness ==
    /\ kind = "packet"
    /\ hist.lCloseReturned
    /\ ~cached
    /\ \E c \in Callers :
          Idle(c) /\ caller[c].op = "Accept" /\ caller[c].ret = "errListenerClosed"

ReturnedWrapper(c) ==
    /\ Idle(c)
    /\ caller[c].op \in {"Accept", "PacketConn"}
    /\ caller[c].ret = "conn"

\* C22: for a packet listener at most one wrapper is ever created, and every
\* successful Accept() and every PacketConn() returns that one wrapper, in
\* whatever order and interleaving the calls are made.
C22_OneCachedWrapper ==
    kind = "packet" =>
        /\ hist.wrappers <= 1
        /\ \A c \in Callers : ReturnedWrapper(c) => caller[c].val = 1
        /\ \A c, d \in Callers :
              (ReturnedWrapper(c) /\ ReturnedWrapper(d)) => caller[c].val = caller[d].val

\* One caller got the wrapper from Accept() and the other from PacketConn().
C22_Witness ==
    /\ kind = "packet"
    /\ hist.wrappers = 1
    /\ \E c, d \in Callers :
          /\ ReturnedWrapper(c) /\ caller[c].op = "Accept"
          /\ ReturnedWrapper(d) /\ caller[d].op = "PacketConn"

AddrObjectsKept ==
    /\ Len(addrs') >= Len(addrs)
    /\ \A i \in 1..Len(addrs) : addrs'[i] = addrs[i]

AddrReplacedOnChange ==
    addr' # addr => (Len(addrs') = Len(addrs) + 1 /\ addrs'[Len(addrs')] = addr')

\* C23: a NATAddr is never modified once constructed. Every NATAddr allocated
\* for a listener keeps its network and both endpoints in every later state,
\* so one obtained from Addr() before a port change still reports the old
\* values; when the listener's address changes l.addr points at a newly
\* allocated NATAddr; and the network of l.addr is that of the listener in
\* every state.
C23_NATAddrImmutable ==
    /\ [][AddrObjectsKept /\ AddrReplacedOnChange]_vars
    /\ [](addr = addrs[Len(addrs)] /\ \A i \in 1..Len(addrs) : addrs[i].network = NetworkOf(kind))

\* A caller read the address before a renewal changed the port: the object it
\* holds still carries the old port and l.addr is another object.
C23_Witness ==
    /\ Len(addrs) = 2
    /\ addrs[1].externalAddr = Endpoint(ExternalIP, InternalPort)
    /\ addr.externalAddr = Endpoint(ExternalIP, ChangedPort)
    /\ \E c \in Callers : Idle(c) /\ caller[c].op = "Addr" /\ caller[c].val = InternalPort

\* C24: with renewalInterval 45 min and mappingDuration 90 min and the mapping
\* leased when the manager starts, as long as at most one renew step has
\* failed the manager's mapping is recorded and unexpired (now strictly before
\* ExpiresAt) at every instant, the instant of the tick that retries included.
C24_OneMissedTickKeepsLease ==
    (started /\ hist.renewFailures <= 1) => ActiveMapping(protocol, rExternalPort)

\* C25: while the manager is started and no capability call has failed, the
\* mapping for its protocol and recorded port is recorded and unexpired.
C25_MappingKeptWhileRunning ==
    (started /\ ~capFailed) => ActiveMapping(protocol, rExternalPort)

MappedKey == MappingKey(call.protocol, call.externalPort)

RoundTripLeavesNothing ==
    /\ MappedKey \notin mappings
    /\ mappings \ {MappedKey} = call.before \ {MappedKey}

C27_MapPortValidatesArguments ==
    (call.fn = "MapPort" /\ call.pc = "mapped") =>
        /\ (InvalidPort(call.port) \/ ~ValidProtocol(call.protocol)) =>
              (call.err # "nil" /\ mappings = call.before)
        /\ call.port \in {1, 65535} => call.err # "invalidPort"

\* C28: parseHexIP maps the text of four bytes b0 b1 b2 b3 to the address
\* b3.b2.b1.b0, and returns an error and no address for an argument whose
\* length is not 8 or that holds a character that is no hex digit.
C28_ParseHexIPReversesBytes ==
    (call.fn = "parseHexIP" /\ call.pc = "done") =>
        IF call.shape = "ok"
        THEN /\ call.result.err = "nil"
             /\ call.result.ip = << call.bytes[4], call.bytes[3], call.bytes[2], call.bytes[1] >>
        ELSE /\ call.result.err # "nil"
             /\ call.result.ip = << >>

\* parseHexIP("0101A8C0") returned 192.168.1.1.
C28_Witness ==
    /\ call.fn = "parseHexIP"
    /\ call.pc = "done"
    /\ call.hexIP = << "0", "1", "0", "1", "A", "8", "C", "0" >>
    /\ call.result = [err |-> "nil", ip |-> << 192, 168, 1, 1 >>]

\* The positions of the default records with a real gateway, and of those
\* that end the scan (a real or a malformed gateway).
RouteDone == call.fn = "readDefaultGateway" /\ call.pc = "done"
Qualifying == { i \in 1..Len(call.records) : call.records[i].kind = "addr" }
Deciding == { i \in 1..Len(call.records) : call.records[i].kind \in { "addr", "malformed" } }
FirstOf(S) == CHOOSE i \in S : \A j \in S : i <= j

\* C29: (as stated) the reader returns the gateway of the first default
\* record whose gateway is not 0.0.0.0, and nil with no error when no record
\* qualifies.
C29_FirstQualifyingOrNotFound ==
    RouteDone =>
        IF Qualifying # {}
        THEN call.result = Found(call.records[FirstOf(Qualifying)].ip)
        ELSE call.result = NotFound

\* C29: a file that does not exist gives nil with no error; another open
\* failure and a file with no first line give an error; otherwise the first
\* default record whose gateway field is not 00000000 decides: its gateway is
\* returned if the field is 8 hex digits, an error if it is not; with no such
\* record the reader returns an error if reading failed and nil with no error
\* otherwise. Records with fewer than three fields and default records
\* with an all-zero gateway are skipped, and 0.0.0.0 is never returned.
C29_FirstDefaultRecordDecides ==
    RouteDone =>
        /\ call.result.gateway # IPv4zero
        /\ CASE call.open = "notExist" -> call.result = NotFound
             [] call.open = "denied" -> call.result.err # "nil" /\ call.result.gateway = NoIP
             [] Len(call.lines) = 0 -> call.result.err # "nil" /\ call.result.gateway = NoIP
             [] Deciding # {} ->
                  LET r == call.records[FirstOf(Deciding)]
                  IN  IF r.kind = "addr" THEN call.result = Found(r.ip)
                      ELSE call.result.err # "nil" /\ call.result.gateway = NoIP
             [] OTHER ->
                  IF call.readErr THEN call.result.err # "nil" /\ call.result.gateway = NoIP
                  ELSE call.result = NotFound

\* The reader skipped a record with two fields and a default record with an
\* all-zero gateway and returned the gateway of the record after them.
C29_Witness ==
    /\ RouteDone
    /\ Len(call.records) = 3
    /\ call.records[1].kind = "short"
    /\ call.records[2].kind = "zero"
    /\ call.records[3].kind = "addr"
    /\ call.result = Found(<< 192, 168, 1, 1 >>)

\* C30: for the output whose default row has the gateway link#5 and whose
\* next row is "192.168.1.1 192.168.1.1 UGSc en0", the BSD parser returns
\* 192.168.1.1.
C30_LinkRowThenNextRow ==
    (call.fn = "parseNetstatOutput" /\ call.pc = "done" /\ call.rows = LinkLocalOutput) =>
        call.result = Found(<< 192, 168, 1, 1 >>)

\* The lines of the Active Routes section: those after the first line that
\* opens it and before the first delimiter that follows.
WindowsDone == call.fn = "parseWindowsRouteOutput" /\ call.pc = "done"
SectionOpens == { i \in 1..Len(call.kinds) : call.kinds[i] = "active" }
SectionEnd ==
    LET D == { i \in 1..Len(call.kinds) :
                 call.kinds[i] = "delim" /\ i > FirstOf(SectionOpens) }
    IN  IF D = {} THEN Len(call.kinds) + 1 ELSE FirstOf(D)
InSection(kinds) ==
    IF SectionOpens = {} THEN {}
    ELSE { i \in 1..Len(call.kinds) :
             FirstOf(SectionOpens) < i /\ i < SectionEnd /\ call.kinds[i] \in kinds }

\* C31: (as stated) the parser returns the gateway of the first line of the
\* Active Routes section whose destination and netmask are 0.0.0.0 and whose
\* gateway is an IPv4 address, however many fields follow.
C31_FirstDefaultLineInSection ==
    WindowsDone =>
        IF InSection({ "row", "short" }) # {}
        THEN call.result = Found(call.ips[FirstOf(InSection({ "row", "short" }))])
        ELSE call.result = NotFound

\* C31: the parser returns the gateway of the first line of the Active Routes
\* section that has at least four fields, destination and netmask 0.0.0.0
\* and an IPv4 gateway; On-link rows, lines before the section and lines
\* after its delimiter are not used; with no such line it returns nil with
\* no error.
C31_FirstDefaultRowInSection ==
    WindowsDone =>
        IF InSection({ "row" }) # {}
        THEN call.result = Found(call.ips[FirstOf(InSection({ "row" }))])
        ELSE call.result = NotFound

\* The parser passed over a default row before the section and an On-link
\* row in it, returned the next row's gateway, and left the row after the
\* delimiter unused.
C31_Witness ==
    /\ WindowsDone
    /\ call.kinds = << "row", "delim", "active", "other", "other", "row", "delim", "row" >>
    /\ call.ips[1] = << 10, 0, 0, 1 >>
    /\ call.result = Found(<< 192, 168, 1, 1 >>)

CloseSocketStep(c) == caller[c].pc = "sock" /\ caller'[c].pc = "idle"

\* C33: when a listener's Close reaches the close of the socket, its call of
\* Stop has returned: the manager is not running, the unmap has been
\* attempted and r.mu is released; a socket closed by the listener's Close
\* never coexists with a running manager.
C33_StopBeforeSocketClose ==
    /\ [][\A c \in Callers : CloseSocketStep(c) =>
            /\ ~started
            /\ hist.stopReturned
            /\ Len(unmaps) = 1
            /\ rmu = Free
            /\ \A d \in Callers : caller[d].pc # "unmap"]_vars
    /\ [](hist.lSockCloses > 0 => (~started /\ hist.stopReturned))

\* A Close has closed the socket and returned, after Stop's one unmap.
C33_Witness ==
    /\ hist.lSockCloses = 1
    /\ hist.lCloseReturned
    /\ sockClosed
    /\ hist.stopReturned
    /\ Len(unmaps) = 1
    /\ ~started

\* The step in which Stop's UnmapPort call is made, and that call having
\* failed to remove the mapping.
UnmapStep(c) == caller[c].pc = "unmap" /\ Len(unmaps') = Len(unmaps) + 1
UnmapFailedStep(c) ==
    /\ UnmapStep(c)
    /\ MappingKey(protocol, StopUnmapPort) \in mappings
    /\ MappingKey(protocol, StopUnmapPort) \in mappings'

\* C34: when UnmapPort fails in Stop, Stop still returns with the manager
\* not running, the loop's done channel closed and r.mu released; the
\* listener's Close goes on to close the socket and returns the socket's
\* close result; UnmapPort is called once.
C34_UnmapFailureDoesNotBlockShutdown ==
    /\ [][\A c \in Callers : UnmapFailedStep(c) =>
            /\ ~started'
            /\ cycle \in doneClosed'
            /\ rmu' = Free
            /\ caller'[c].pc = IF caller[c].op = "Close" THEN "sock" ELSE "idle"]_vars
    /\ [][\A c \in Callers : CloseSocketStep(c) =>
            /\ sockClosed'
            /\ caller'[c].op = "Close"
            /\ caller'[c].ret = IF cached THEN closeErr'
                                ELSE IF sockClosed THEN "errClosed" ELSE "nil"
            /\ caller'[c].ret \in { "nil", "errClosed" }]_vars
    /\ [](Len(unmaps) + Cardinality({ c \in Callers : caller[c].pc = "unmap" }) <= 1)

\* No renew step ran, the unmap of Close's Stop failed (the mapping is still
\* there) and Close closed the socket and returned its result.
C34_Witness ==
    /\ ticks = 0
    /\ Len(unmaps) = 1
    /\ mappings # {}
    /\ capFailed
    /\ ~started
    /\ hist.lCloseReturned
    /\ sockClosed
    /\ \E c \in Callers : caller[c].op = "Close" /\ caller[c].pc = "idle" /\ caller[c].ret = "nil"

\* The loops that have been launched and have not returned.
AliveLoops == { k \in Cycles : loop[k].pc \notin { "none", "exited" } }

\* C35: the loop launched in cycle k begins a renew step only by taking a
\* tick from cycle k's ticker channel, leaving every other cycle's channel
\* as it was, and returns only when cycle k's done channel is closed.
C35_LoopUsesOwnCycleChannels ==
    [][\A k \in Cycles :
          /\ (loop[k].pc = "select" /\ loop'[k].pc = "map") =>
                /\ tickC[k] = 1
                /\ tickC'[k] = 0
                /\ \A j \in Cycles \ { k } : tickC'[j] = tickC[j]
          /\ (loop[k].pc = "select" /\ loop'[k].pc = "exited") =>
                k \in doneClosed]_vars

\* After Stop and a second Start the first cycle's loop is in a renew step
\* while the second cycle's ticker has a tick waiting, untouched.
C35_Witness ==
    /\ cycle = 2
    /\ started
    /\ 1 \in doneClosed
    /\ loop[1].pc = "map"
    /\ tickC[2] = 1
    /\ loop[2].pc = "select"

\* C36: at most one renewal loop of a manager is alive at any time.
C36_AtMostOneLoopAlive == Cardinality(AliveLoops) <= 1

\* C37: once Stop has stopped the manager in cycle k, the loop of cycle k
\* eventually returns; from the stop on its ticker is stopped and delivers no
\* tick, so the loop begins at most one renew step more, from the tick its
\* channel held.
C37_LoopTerminatesAfterStop ==
    /\ \A k \in Cycles : (cycle = k /\ ~started) ~> (loop[k].pc = "exited")
    /\ [](\A k \in Cycles : (k <= cycle /\ (k < cycle \/ ~started)) => k \in tickerStopped)
    /\ [][\A k \in tickerStopped : tickC'[k] <= tickC[k]]_vars

\* The manager was stopped after two ticks were delivered, and its loop has
\* taken both and returned.
C37_Witness ==
    /\ cycle = 1
    /\ ~started
    /\ hist.stopReturned
    /\ loop[1].pc = "exited"
    /\ ticks = 2
    /\ tickC[1] = 0

\* C38: once Stop has returned, and so once the listener's Close has
\* returned, the port-change callback does not run again: the listener's
\* external port and address are the same in every later state.
C38_NoCallbackAfterStop ==
    [][(hist.stopReturned /\ hist.lCloseReturned) =>
          (ListenerExternalPort' = ListenerExternalPort /\ ListenerAddr' = ListenerAddr)]_vars

\* C39: with a renew step that changes the port running against Close,
\* Accept, Addr, ExternalPort and PacketConn calls, no goroutine waits for a
\* lock forever: every call that has begun returns, l.mu and r.mu are always
\* released again, and a renew step that has its port completes.
C39_NoLockWaitForever ==
    /\ \A c \in Callers : (caller[c].pc # "idle") ~> (caller[c].pc = "idle")
    /\ (lmu # Free) ~> (lmu = Free)
    /\ (rmu # Free) ~> (rmu = Free)
    /\ \A k \in Cycles : (loop[k].pc \in { "commit", "cb" }) ~> (loop[k].pc = "select")

\* Close held l.mu and was inside Stop, holding r.mu, while a renew step
\* that changed the port waited to call the callback.
C39_Witness ==
    /\ \E c \in Callers : lmu = c /\ rmu = c /\ caller[c].pc = "unmap"
    /\ \E k \in Cycles : loop[k].pc = "cb" /\ loop[k].newPort # loop[k].oldPort

\* C40: after NATPMPMapper.MapPort succeeded and UnmapPort of the port it
\* returned succeeded, the gateway holds no mapping for the protocol and
\* the internal port, whatever external port the gateway had assigned, and
\* the mappings of other ports are as before.
C40_UnmapRemovesTheMapping ==
    (call.fn = "NATPMPMapper" /\ call.pc = "unmapped" /\ call.unmapErr = "nil") =>
        /\ \A m \in call.table :
              ~(m.protocol = call.protocol /\ m.internalPort = call.internalPort)
        /\ call.table = call.before

====
